---- MODULE Spec2Model ----
(***************************************************************************)
(* Enrollment, batch-seat, fee-ledger and counter bookkeeping of the       *)
(* education back-office (controllers + mongoose models).                  *)
(*                                                                         *)
(* Spec        : the enrollment / batch handlers, one request at a time.   *)
(* SpecConc    : concurrent enrollment creation, one step per await.       *)
(* SpecPay     : payment recording and the student / enrollment ledgers.   *)
(* SpecCounter : concurrent ID generation through the Counter collection.  *)
(*                                                                         *)
(* Document store conventions: findByIdAndUpdate with $inc / $push / $pull *)
(* is one atomic write that runs no schema validators; doc.save() runs the *)
(* validators and the pre('save') hook; a unique index rejects the insert  *)
(* with error code 11000.  Pre-save hooks are taken to fill the generated  *)
(* id before the document is persisted, as the models intend.              *)
(***************************************************************************)
EXTENDS Integers, Sequences, FiniteSets, TLC

\* ---------------------------------------------------------------- bounds
NumStudents == 2
NumCourses == 1
NumBatches == 2
MaxSeats == 2
MaxEnrollments == 2
MaxFee == 1
\* currentStudents is explored within -MaxDrift .. MaxSeats + MaxDrift
MaxDrift == 1
NumProcs == 2
MaxPayments == 2
MaxTicks == 1
MaxDocs == 3
NumModules == 3
NumDates == 2
MaxAttendance == 2
MaxMarks == 4
MaxLeads == 2
NumPhones == 3
NumSessions == 2
MaxSubmissions == 3
MaxSaves == 3

Students == 1..NumStudents
Courses == 1..NumCourses
Batches == 1..NumBatches
\* well-formed ids that name no stored document
StudentIds == 1..(NumStudents + 1)
FeeTotals == 1..MaxFee

\* enrollment.batch is optional
NoBatch == 0
\* key not present in req.body
Absent == -1
AbsentStatus == "absent"

EnrollmentStatuses == {"pending", "active", "completed", "dropped", "suspended"}

VARIABLES
    enrollments,   \* Enrollment collection: _id -> document
    oidSeq,        \* number of Enrollment documents ever inserted
    batches,       \* Batch collection: _id -> [maxStudents, currentStudents, students]
    studentRefs,   \* Student.enrollments: student -> sequence of enrollment _ids
    ledger,        \* Student.paymentPlan: student -> [totalFees, paidAmount, pendingAmount]
    courseStats,   \* Course.enrollmentStats
    resp,          \* the response sent last: [op, status, msg]
    procs,         \* requests in flight: process -> [pc, request, locals]
    payments,      \* Payment collection: _id -> [student, enrollment, amount, status]
    paySeq,        \* number of Payment documents ever inserted
    counters,      \* Counter collection: _id (sequence name) -> seq
    issued,        \* log of generated ids: sequence of [name, seq, field, id]
    callers,       \* pre('save') hooks in flight: caller -> [pc, paymentId]
    clock,         \* months elapsed since the first request
    attendance,    \* Attendance collection: _id -> document
    attSeq,        \* number of Attendance documents ever inserted
    leads,         \* Lead collection: _id -> [phone, convertedToStudent, convertedStudentId]
    students,      \* Student documents created from leads: sequence of [phone, leadSource]
    curriculum,    \* Course.curriculum.length: course -> number of modules
    contents,      \* Content collection: _id -> [type, submissions, statsSubmissions]
    batchSessions, \* Batch.sessions: batch -> sequence of attendanceTaken flags
    rosterPct,     \* Batch.students[].attendancePercentage: batch -> (student -> value)
    attLog         \* attendance submitted per batch session: sequence of [batch, student, status]

dbVars == <<enrollments, oidSeq, batches, studentRefs, ledger, courseStats>>
\* state that the enrollment and batch handlers never touch
idVars == <<counters, issued, callers, clock>>
payVars == <<payments, paySeq>>
\* the attendance and lead collections
lmsVars == <<curriculum, contents, batchSessions, rosterPct, attLog>>
extVars == <<attendance, attSeq, leads, students, lmsVars>>
auxVars == <<procs, payments, paySeq, counters, issued, callers, clock, extVars>>
vars == <<enrollments, oidSeq, batches, studentRefs, ledger, courseStats, resp, procs,
          payments, paySeq, counters, issued, callers, clock, attendance, attSeq, leads,
          students, curriculum, contents, batchSessions, rosterPct, attLog>>

\* ------------------------------------------------------------- helpers
Max(a, b) == IF a >= b THEN a ELSE b

Remove(f, k) == [x \in (DOMAIN f) \ {k} |-> f[x]]

Put(f, k, v) == [x \in (DOMAIN f) \cup {k} |-> IF x = k THEN v ELSE f[x]]

\* Array.prototype.findIndex over the roster, 0 when absent
RosterIndex(roster, s) ==
    IF \E i \in DOMAIN roster : roster[i].student = s
    THEN CHOOSE i \in DOMAIN roster :
            /\ roster[i].student = s
            /\ \A j \in DOMAIN roster : roster[j].student = s => i <= j
    ELSE 0

\* Array.prototype.splice(i, 1)
Splice(seq, i) == [j \in 1..(Len(seq) - 1) |-> IF j < i THEN seq[j] ELSE seq[j + 1]]

\* $pull: drop every occurrence
Pull(seq, v) == SelectSeq(seq, LAMBDA x : x # v)

Response(op, status, msg) == [op |-> op, status |-> status, msg |-> msg]

\* duplicate check that forgets pending enrollments
ExistingEnrollment_ActiveOnly(enr, s, c) ==
    \E e \in DOMAIN enr :
        /\ enr[e].student = s
        /\ enr[e].course = c
        /\ enr[e].status = "active"

\* Enrollment.findOne({student, course, status: {$in: ['pending','active']}})
ExistingEnrollment(enr, s, c) ==
    \E e \in DOMAIN enr :
        /\ enr[e].student = s
        /\ enr[e].course = c
        /\ enr[e].status \in {"pending", "active"}

\* a collection without the unique (student, course) index
UniqueIndexViolated_NoIndex(enr, s, c) == FALSE

\* enrollmentSchema.index({student: 1, course: 1}, {unique: true})
UniqueIndexViolated(enr, s, c) ==
    \E e \in DOMAIN enr : enr[e].student = s /\ enr[e].course = c

\* capacity check that admits one student too many
BatchIsFull_OffByOne(batch) == batch.currentStudents > batch.maxStudents

\* batch.currentStudents >= batch.maxStudents
BatchIsFull(batch) == batch.currentStudents >= batch.maxStudents

\* Batch.findByIdAndUpdate(id, {$inc: {currentStudents: d}}); no-op without a batch
IncBatch(bs, b, d) ==
    IF b \in DOMAIN bs
    THEN [bs EXCEPT ![b].currentStudents = @ + d]
    ELSE bs

\* { $match: { course } }, { $group: { _id: '$status', count: { $sum: 1 } } }
StatusGroups(enr, c) ==
    {[id |-> st,
      count |-> Cardinality({e \in DOMAIN enr : enr[e].course = c /\ enr[e].status = st})] :
        st \in {enr[e].status : e \in {x \in DOMAIN enr : enr[x].course = c}}}

RECURSIVE SumCounts(_)
SumCounts(groups) ==
    IF groups = {}
    THEN 0
    ELSE LET g == CHOOSE x \in groups : TRUE
         IN g.count + SumCounts(groups \ {g})

\* count of the group with _id = st, 0 when the status does not occur
CountOf(groups, st) == SumCounts({g \in groups : g.id = st})

\* the forEach with the group 'suspended' read as dropout
RecountStats_SuspendedAsDropout(enr, c) ==
    LET stats == StatusGroups(enr, c)
    IN [totalEnrolled |-> SumCounts(stats),
        active |-> CountOf(stats, "active"),
        completed |-> CountOf(stats, "completed"),
        dropout |-> CountOf(stats, "suspended")]

\* updateCourseEnrollmentStats: every group adds to totalEnrolled, the groups
\* active, completed and dropped set their own field
RecountStats(enr, c) ==
    LET stats == StatusGroups(enr, c)
    IN [totalEnrolled |-> SumCounts(stats),
        active |-> CountOf(stats, "active"),
        completed |-> CountOf(stats, "completed"),
        dropout |-> CountOf(stats, "dropped")]

\* Math.round of the non-negative quotient num / den: floor(num / den + 1/2)
MathRound(num, den) == (2 * num + den) \div (2 * den)

\* the percentage that drops the fraction instead of rounding it
ProgressPercentage_Truncated(completed, totalModules) ==
    IF totalModules > 0 THEN (completed * 100) \div totalModules ELSE 0

\* totalModules > 0 ? Math.round((completed / totalModules) * 100) : 0
ProgressPercentage(completed, totalModules) ==
    IF totalModules > 0 THEN MathRound(completed * 100, totalModules) ELSE 0

\* enrollmentSchema.pre('save'): fees.pending = fees.total - fees.paid; when the
\* course is found, progress.percentage is recomputed from its curriculum
EnrollmentPreSave(doc) ==
    [doc EXCEPT !.pending = doc.total - doc.paid,
                !.percentage = IF doc.course \in DOMAIN curriculum
                               THEN ProgressPercentage(Len(doc.completedModules),
                                                       curriculum[doc.course])
                               ELSE @]

\* studentSchema.pre('save'): pendingAmount = totalFees - paidAmount
StudentPreSave(plan) == [plan EXCEPT !.pendingAmount = plan.totalFees - plan.paidAmount]

NewEnrollment(s, c, b, st, total) ==
    EnrollmentPreSave([student |-> s, course |-> c, batch |-> b, status |-> st,
                       total |-> total, paid |-> 0, pending |-> total,
                       completedModules |-> <<>>, percentage |-> 0,
                       assignments |-> <<>>, attendance |-> <<>>])

\* exploration bound on the seat counters
InDrift(bs) ==
    \A b \in DOMAIN bs :
        /\ bs[b].currentStudents >= 0 - MaxDrift
        /\ bs[b].currentStudents <= MaxSeats + MaxDrift

ActiveRoster(batch) ==
    Cardinality({i \in DOMAIN batch.students : batch.students[i].status = "active"})

\* --------------------------------------------------------------- Init
\* the collections after seeding: students and batches exist, nothing is enrolled
InitDb(bset) ==
    /\ enrollments = <<>>
    /\ oidSeq = 0
    /\ batches = [b \in bset |->
                    [maxStudents |-> MaxSeats, currentStudents |-> 0, students |-> <<>>]]
    /\ studentRefs = [s \in Students |-> <<>>]
    /\ ledger = [s \in Students |-> [totalFees |-> 0, paidAmount |-> 0, pendingAmount |-> 0]]
    /\ courseStats = [c \in Courses |->
                        [totalEnrolled |-> 0, active |-> 0, completed |-> 0, dropout |-> 0]]

NoResponse == Response("none", 0, "none")

Procs == 1..NumProcs

Idle == [pc |-> "idle", student |-> 0, course |-> 0, batch |-> NoBatch, total |-> 0,
         eid |-> 0, plan |-> <<>>, stats |-> <<>>]

NoProcs == [p \in Procs |-> Idle]

\* payment.enrollment is optional
NoEnrollment == 0

\* the seed script creates the id counters with seq 1000
SeedSeq == 1000

SeededCounters ==
    [n \in {<<"studentId">>, <<"enrollmentId">>, <<"paymentId">>} |-> SeedSeq]

\* new Date() of the first request: December 2026
StartYear == 2026
StartMonth == 12

IdleCaller == [pc |-> "idle"]

NoCallers == [p \in Procs |-> IdleCaller]

\* payments, counters and id generation before the first request
\* seeded courses, contents and batch sessions: every course has NumModules
\* modules, content 1 is an assignment and content 2 a video, no session has
\* had its attendance taken
InitLms ==
    /\ curriculum = [c \in Courses |-> NumModules]
    /\ contents = <<[type |-> "assignment", submissions |-> <<>>, statsSubmissions |-> 0],
                    [type |-> "video", submissions |-> <<>>, statsSubmissions |-> 0]>>
    /\ batchSessions = [b \in Batches |-> [i \in 1..NumSessions |-> FALSE]]
    /\ rosterPct = [b \in Batches |-> <<>>]
    /\ attLog = <<>>

InitAux ==
    /\ payments = <<>>
    /\ paySeq = 0
    /\ counters = SeededCounters
    /\ issued = <<>>
    /\ callers = NoCallers
    /\ clock = 0
    /\ attendance = <<>>
    /\ attSeq = 0
    /\ leads = <<>>
    /\ students = <<>>
    /\ InitLms

\* ------------------------------------------------- enrollment handlers
\* POST /api/enrollments
CreateEnrollment(s, c, b, st, total) ==
    /\ UNCHANGED auxVars
    /\ IF ExistingEnrollment(enrollments, s, c)
       THEN /\ resp' = Response("createEnrollment", 400, "AlreadyEnrolled")
            /\ UNCHANGED dbVars
       ELSE IF b # NoBatch /\ BatchIsFull(batches[b])
       THEN /\ resp' = Response("createEnrollment", 400, "BatchFull")
            /\ UNCHANGED dbVars
       ELSE IF UniqueIndexViolated(enrollments, s, c)
       THEN /\ resp' = Response("createEnrollment", 400, "DuplicateKey")
            /\ UNCHANGED dbVars
       ELSE /\ oidSeq < MaxEnrollments
            /\ LET id == oidSeq + 1
                   enr == Put(enrollments, id, NewEnrollment(s, c, b, st, total))
               IN /\ enrollments' = enr
                  /\ oidSeq' = id
                  /\ studentRefs' = [studentRefs EXCEPT ![s] = Append(@, id)]
                  /\ batches' = IncBatch(batches, b, 1)
                  /\ InDrift(batches')
                  /\ courseStats' = [courseStats EXCEPT ![c] = RecountStats(enr, c)]
            /\ resp' = Response("createEnrollment", 201, "Created")
            /\ UNCHANGED ledger

\* POST /api/students/:id/enroll
EnrollStudent(s, c, b, total) ==
    /\ UNCHANGED auxVars
    /\ IF s \notin DOMAIN ledger
       THEN /\ resp' = Response("enrollStudent", 404, "StudentNotFound")
            /\ UNCHANGED dbVars
       ELSE IF ExistingEnrollment(enrollments, s, c)
       THEN /\ resp' = Response("enrollStudent", 400, "AlreadyEnrolled")
            /\ UNCHANGED dbVars
       ELSE IF UniqueIndexViolated(enrollments, s, c)
       THEN /\ resp' = Response("enrollStudent", 500, "ServerError")
            /\ UNCHANGED dbVars
       ELSE /\ oidSeq < MaxEnrollments
            /\ LET id == oidSeq + 1
                   newTotalFees == ledger[s].totalFees + total
                   newPendingAmount == newTotalFees - ledger[s].paidAmount
               IN /\ enrollments' = Put(enrollments, id, NewEnrollment(s, c, b, "pending", total))
                  /\ oidSeq' = id
                  /\ studentRefs' = [studentRefs EXCEPT ![s] = Append(@, id)]
                  /\ IF newPendingAmount < 0
                     THEN \* the second student.save() fails the min: 0 validator
                          /\ ledger' = ledger
                          /\ resp' = Response("enrollStudent", 500, "ServerError")
                     ELSE /\ ledger' = [ledger EXCEPT ![s] =
                                  StudentPreSave([totalFees |-> newTotalFees,
                                                  paidAmount |-> ledger[s].paidAmount,
                                                  pendingAmount |-> newPendingAmount])]
                          /\ resp' = Response("enrollStudent", 201, "Created")
            /\ UNCHANGED <<batches, courseStats>>

\* PUT /api/enrollments/:id with req.body = {batch?, status?}
UpdateEnrollment(e, b, st) ==
    /\ UNCHANGED auxVars
    /\ IF e \notin DOMAIN enrollments
       THEN /\ resp' = Response("updateEnrollment", 404, "EnrollmentNotFound")
            /\ UNCHANGED dbVars
       ELSE LET oldBatch == enrollments[e].batch
                newBatch == IF b = Absent THEN oldBatch ELSE b
                newStatus == IF st = AbsentStatus THEN enrollments[e].status ELSE st
                doc == EnrollmentPreSave([enrollments[e] EXCEPT !.batch = newBatch,
                                                                !.status = newStatus])
                enr == [enrollments EXCEPT ![e] = doc]
            IN /\ enrollments' = enr
               /\ batches' = IF oldBatch # NoBatch /\ newBatch # NoBatch /\ oldBatch # newBatch
                             THEN IncBatch(IncBatch(batches, oldBatch, -1), newBatch, 1)
                             ELSE batches
               /\ InDrift(batches')
               /\ courseStats' = IF st # AbsentStatus
                                 THEN [courseStats EXCEPT ![doc.course] = RecountStats(enr, doc.course)]
                                 ELSE courseStats
               /\ resp' = Response("updateEnrollment", 200, "Updated")
               /\ UNCHANGED <<oidSeq, studentRefs, ledger>>

\* DELETE /api/enrollments/:id
DeleteEnrollment(e) ==
    /\ UNCHANGED auxVars
    /\ IF e \notin DOMAIN enrollments
       THEN /\ resp' = Response("deleteEnrollment", 404, "EnrollmentNotFound")
            /\ UNCHANGED dbVars
       ELSE LET doc == enrollments[e]
            IN /\ studentRefs' = [studentRefs EXCEPT ![doc.student] = Pull(@, e)]
               /\ batches' = IF doc.batch # NoBatch
                             THEN IncBatch(batches, doc.batch, -1)
                             ELSE batches
               /\ InDrift(batches')
               \* the recount runs before enrollment.deleteOne()
               /\ courseStats' = [courseStats EXCEPT ![doc.course] = RecountStats(enrollments, doc.course)]
               /\ enrollments' = Remove(enrollments, e)
               /\ resp' = Response("deleteEnrollment", 200, "Deleted")
               /\ UNCHANGED <<oidSeq, ledger>>

\* ------------------------------------------------------ batch handlers
\* POST /api/batches/:id/students
AddStudentToBatch(b, s) ==
    /\ UNCHANGED auxVars
    /\ IF b \notin DOMAIN batches
       THEN /\ resp' = Response("addStudentToBatch", 404, "BatchNotFound")
            /\ UNCHANGED dbVars
       ELSE IF s \notin DOMAIN ledger
       THEN /\ resp' = Response("addStudentToBatch", 404, "StudentNotFound")
            /\ UNCHANGED dbVars
       ELSE IF BatchIsFull(batches[b])
       THEN /\ resp' = Response("addStudentToBatch", 400, "BatchFull")
            /\ UNCHANGED dbVars
       ELSE IF RosterIndex(batches[b].students, s) # 0
       THEN /\ resp' = Response("addStudentToBatch", 400, "AlreadyInBatch")
            /\ UNCHANGED dbVars
       ELSE IF batches[b].currentStudents + 1 < 0
       THEN \* batch.save() validates currentStudents min: 0
            /\ resp' = Response("addStudentToBatch", 500, "ServerError")
            /\ UNCHANGED dbVars
       ELSE /\ batches' = [batches EXCEPT
                              ![b].students = Append(@, [student |-> s, status |-> "active"]),
                              ![b].currentStudents = @ + 1]
            /\ resp' = Response("addStudentToBatch", 200, "Added")
            /\ UNCHANGED <<enrollments, oidSeq, studentRefs, ledger, courseStats>>

\* DELETE /api/batches/:id/students/:studentId
RemoveStudentFromBatch(b, s) ==
    /\ UNCHANGED auxVars
    /\ IF b \notin DOMAIN batches
       THEN /\ resp' = Response("removeStudentFromBatch", 404, "BatchNotFound")
            /\ UNCHANGED dbVars
       ELSE IF RosterIndex(batches[b].students, s) = 0
       THEN /\ resp' = Response("removeStudentFromBatch", 404, "StudentNotInBatch")
            /\ UNCHANGED dbVars
       ELSE /\ batches' = [batches EXCEPT
                              ![b].students = Splice(@, RosterIndex(batches[b].students, s)),
                              ![b].currentStudents = Max(0, @ - 1)]
            /\ resp' = Response("removeStudentFromBatch", 200, "Removed")
            /\ UNCHANGED <<enrollments, oidSeq, studentRefs, ledger, courseStats>>

\* ---------------------------------------------------------------- Spec
\* seat bookkeeping over two batches, one request at a time
Init ==
    /\ InitDb(Batches)
    /\ resp = NoResponse
    /\ procs = NoProcs
    /\ InitAux

Next ==
    \/ \E s \in Students, c \in Courses, b \in Batches \cup {NoBatch}, t \in FeeTotals :
          CreateEnrollment(s, c, b, "pending", t)
    \/ \E e \in 1..MaxEnrollments, b \in Batches \cup {NoBatch, Absent} :
          UpdateEnrollment(e, b, AbsentStatus)
    \/ \E e \in 1..MaxEnrollments : DeleteEnrollment(e)
    \/ \E b \in Batches, s \in Students : AddStudentToBatch(b, s)
    \/ \E b \in Batches, s \in Students : RemoveStudentFromBatch(b, s)

Spec == Init /\ [][Next]_vars

\* ------------------------------------------------------------ SpecSeat
\* capacity checks on one batch of one course (batch id 2 names no document)
SeatBatches == {1}
\* the requests name students 1 and 2 (or the id NumStudents + 1 of no document)
DupStudents == {1, 2}

InitSeat ==
    /\ InitDb(SeatBatches)
    /\ resp = NoResponse
    /\ procs = NoProcs
    /\ InitAux

NextSeat ==
    \/ \E s \in DupStudents, b \in SeatBatches \cup {NoBatch} :
          CreateEnrollment(s, 1, b, "pending", MaxFee)
    \/ \E e \in 1..MaxEnrollments, b \in SeatBatches \cup {NoBatch} :
          UpdateEnrollment(e, b, AbsentStatus)
    \/ \E e \in 1..MaxEnrollments : DeleteEnrollment(e)
    \/ \E b \in SeatBatches \cup {2}, s \in DupStudents \cup {NumStudents + 1} :
          AddStudentToBatch(b, s)
    \/ \E b \in SeatBatches \cup {2}, s \in DupStudents \cup {NumStudents + 1} :
          RemoveStudentFromBatch(b, s)

SpecSeat == InitSeat /\ [][NextSeat]_vars

\* ------------------------------------------------------------- SpecDup
\* both enrollment-creation paths against the duplicate check, one course and one batch
InitDup ==
    /\ InitDb(SeatBatches)
    /\ resp = NoResponse
    /\ procs = NoProcs
    /\ InitAux

NextDup ==
    \/ \E s \in DupStudents, b \in SeatBatches \cup {NoBatch} :
          CreateEnrollment(s, 1, b, "pending", MaxFee)
    \/ \E s \in DupStudents \cup {NumStudents + 1}, b \in SeatBatches \cup {NoBatch} :
          EnrollStudent(s, 1, b, MaxFee)
    \/ \E e \in 1..MaxEnrollments, st \in {"active", "completed"} :
          UpdateEnrollment(e, Absent, st)
    \/ \E e \in 1..MaxEnrollments : DeleteEnrollment(e)

SpecDup == InitDup /\ [][NextDup]_vars

\* ------------------------------------------------------------ SpecConc
\* Concurrent enrollment creation.  A handler runs up to its next await in
\* one step; the store applies each read or write atomically.
Goto(p, pc) == [procs EXCEPT ![p].pc = pc]

Finish(p) == [procs EXCEPT ![p] = Idle]

\* createEnrollment up to Enrollment.findOne (lines 142-164)
CE_FindExisting(p, s, c, b, total) ==
    /\ procs[p].pc = "idle"
    /\ UNCHANGED <<payVars, idVars, extVars>>
    /\ IF ExistingEnrollment(enrollments, s, c)
       THEN /\ resp' = Response("createEnrollment", 400, "AlreadyEnrolled")
            /\ UNCHANGED procs
       ELSE /\ procs' = [procs EXCEPT ![p] =
                           [Idle EXCEPT !.pc = IF b # NoBatch THEN "ce_batch" ELSE "ce_create",
                                        !.student = s, !.course = c, !.batch = b, !.total = total]]
            /\ UNCHANGED resp
    /\ UNCHANGED dbVars

\* Batch.findById and the capacity check (lines 167-175)
CE_CheckBatch(p) ==
    /\ procs[p].pc = "ce_batch"
    /\ UNCHANGED <<payVars, idVars, extVars>>
    /\ IF procs[p].batch \in DOMAIN batches /\ BatchIsFull(batches[procs[p].batch])
       THEN /\ resp' = Response("createEnrollment", 400, "BatchFull")
            /\ procs' = Finish(p)
       ELSE /\ procs' = Goto(p, "ce_create")
            /\ UNCHANGED resp
    /\ UNCHANGED dbVars

\* Enrollment.create (line 177); error 11000 is answered 400 (lines 216-221)
CE_Create(p) ==
    /\ procs[p].pc = "ce_create"
    /\ UNCHANGED <<payVars, idVars, extVars>>
    /\ IF UniqueIndexViolated(enrollments, procs[p].student, procs[p].course)
       THEN /\ resp' = Response("createEnrollment", 400, "DuplicateKey")
            /\ procs' = Finish(p)
            /\ UNCHANGED dbVars
       ELSE /\ oidSeq < MaxEnrollments
            /\ enrollments' = Put(enrollments, oidSeq + 1,
                                  NewEnrollment(procs[p].student, procs[p].course,
                                                procs[p].batch, "pending", procs[p].total))
            /\ oidSeq' = oidSeq + 1
            /\ procs' = [procs EXCEPT ![p].pc = "ce_push", ![p].eid = oidSeq + 1]
            /\ UNCHANGED <<batches, studentRefs, ledger, courseStats, resp>>

\* Student.findByIdAndUpdate $push (lines 180-182)
CE_PushStudent(p) ==
    /\ procs[p].pc = "ce_push"
    /\ UNCHANGED <<payVars, idVars, extVars>>
    /\ studentRefs' = [studentRefs EXCEPT ![procs[p].student] = Append(@, procs[p].eid)]
    /\ procs' = Goto(p, IF procs[p].batch # NoBatch THEN "ce_inc" ELSE "ce_agg")
    /\ UNCHANGED <<enrollments, oidSeq, batches, ledger, courseStats, resp>>

\* Batch.findByIdAndUpdate $inc (lines 185-189)
CE_IncBatch(p) ==
    /\ procs[p].pc = "ce_inc"
    /\ UNCHANGED <<payVars, idVars, extVars>>
    /\ batches' = IncBatch(batches, procs[p].batch, 1)
    /\ InDrift(batches')
    /\ procs' = Goto(p, "ce_agg")
    /\ UNCHANGED <<enrollments, oidSeq, studentRefs, ledger, courseStats, resp>>

\* updateCourseEnrollmentStats: Enrollment.aggregate (lines 235-255)
CE_Aggregate(p) ==
    /\ procs[p].pc = "ce_agg"
    /\ UNCHANGED <<payVars, idVars, extVars>>
    /\ procs' = [procs EXCEPT ![p].pc = "ce_stats",
                              ![p].stats = RecountStats(enrollments, procs[p].course)]
    /\ UNCHANGED <<dbVars, resp>>

\* Course.findByIdAndUpdate with the counts, then the 201 response (lines 257-259, 195-204)
CE_WriteStats(p) ==
    /\ procs[p].pc = "ce_stats"
    /\ UNCHANGED <<payVars, idVars, extVars>>
    /\ courseStats' = [courseStats EXCEPT ![procs[p].course] = procs[p].stats]
    /\ resp' = Response("createEnrollment", 201, "Created")
    /\ procs' = Finish(p)
    /\ UNCHANGED <<enrollments, oidSeq, batches, studentRefs, ledger>>

\* enrollStudent up to Student.findById (lines 561-572)
ES_FindStudent(p, s, c, b, total) ==
    /\ procs[p].pc = "idle"
    /\ UNCHANGED <<payVars, idVars, extVars>>
    /\ IF s \notin DOMAIN ledger
       THEN /\ resp' = Response("enrollStudent", 404, "StudentNotFound")
            /\ UNCHANGED procs
       ELSE /\ procs' = [procs EXCEPT ![p] =
                           [Idle EXCEPT !.pc = "es_find", !.student = s, !.course = c,
                                        !.batch = b, !.total = total, !.plan = ledger[s]]]
            /\ UNCHANGED resp
    /\ UNCHANGED dbVars

\* Enrollment.findOne (lines 575-586)
ES_FindExisting(p) ==
    /\ procs[p].pc = "es_find"
    /\ UNCHANGED <<payVars, idVars, extVars>>
    /\ IF ExistingEnrollment(enrollments, procs[p].student, procs[p].course)
       THEN /\ resp' = Response("enrollStudent", 400, "AlreadyEnrolled")
            /\ procs' = Finish(p)
       ELSE /\ procs' = Goto(p, "es_create")
            /\ UNCHANGED resp
    /\ UNCHANGED dbVars

\* Enrollment.create (line 605); any error is answered 500 (lines 635-641)
ES_Create(p) ==
    /\ procs[p].pc = "es_create"
    /\ UNCHANGED <<payVars, idVars, extVars>>
    /\ IF UniqueIndexViolated(enrollments, procs[p].student, procs[p].course)
       THEN /\ resp' = Response("enrollStudent", 500, "ServerError")
            /\ procs' = Finish(p)
            /\ UNCHANGED dbVars
       ELSE /\ oidSeq < MaxEnrollments
            /\ enrollments' = Put(enrollments, oidSeq + 1,
                                  NewEnrollment(procs[p].student, procs[p].course,
                                                procs[p].batch, "pending", procs[p].total))
            /\ oidSeq' = oidSeq + 1
            /\ procs' = [procs EXCEPT ![p].pc = "es_push", ![p].eid = oidSeq + 1]
            /\ UNCHANGED <<batches, studentRefs, ledger, courseStats, resp>>

\* student.enrollments.push and the first student.save() (lines 608-609)
ES_PushAndSave(p) ==
    /\ procs[p].pc = "es_push"
    /\ UNCHANGED <<payVars, idVars, extVars>>
    /\ studentRefs' = [studentRefs EXCEPT ![procs[p].student] = Append(@, procs[p].eid)]
    /\ LET plan == StudentPreSave(procs[p].plan)
       IN /\ ledger' = IF plan.pendingAmount # procs[p].plan.pendingAmount
                       THEN [ledger EXCEPT ![procs[p].student].pendingAmount = plan.pendingAmount]
                       ELSE ledger
          /\ procs' = [procs EXCEPT ![p].pc = "es_plan", ![p].plan = plan]
    /\ UNCHANGED <<enrollments, oidSeq, batches, courseStats, resp>>

\* the payment plan rebuilt from the loaded document and the second save (lines 612-634)
ES_SavePlan(p) ==
    /\ procs[p].pc = "es_plan"
    /\ UNCHANGED <<payVars, idVars, extVars>>
    /\ LET newTotalFees == procs[p].plan.totalFees + procs[p].total
           newPendingAmount == newTotalFees - procs[p].plan.paidAmount
       IN IF newPendingAmount < 0
          THEN /\ ledger' = ledger
               /\ resp' = Response("enrollStudent", 500, "ServerError")
          ELSE /\ ledger' = [ledger EXCEPT ![procs[p].student] =
                        StudentPreSave([totalFees |-> newTotalFees,
                                        paidAmount |-> procs[p].plan.paidAmount,
                                        pendingAmount |-> newPendingAmount])]
               /\ resp' = Response("enrollStudent", 201, "Created")
    /\ procs' = Finish(p)
    /\ UNCHANGED <<enrollments, oidSeq, batches, studentRefs, courseStats>>

\* the concurrent requests all name student 1 and course 1 (batch id 1 or none)
InitConc ==
    /\ InitDb(SeatBatches)
    /\ resp = NoResponse
    /\ procs = NoProcs
    /\ InitAux

NextConc ==
    \/ \E p \in Procs, b \in SeatBatches \cup {NoBatch} : CE_FindExisting(p, 1, 1, b, MaxFee)
    \/ \E p \in Procs : CE_CheckBatch(p)
    \/ \E p \in Procs : CE_Create(p)
    \/ \E p \in Procs : CE_PushStudent(p)
    \/ \E p \in Procs : CE_IncBatch(p)
    \/ \E p \in Procs : CE_Aggregate(p)
    \/ \E p \in Procs : CE_WriteStats(p)
    \/ \E p \in Procs, b \in SeatBatches \cup {NoBatch} : ES_FindStudent(p, 1, 1, b, MaxFee)
    \/ \E p \in Procs : ES_FindExisting(p)
    \/ \E p \in Procs : ES_Create(p)
    \/ \E p \in Procs : ES_PushAndSave(p)
    \/ \E p \in Procs : ES_SavePlan(p)
    \/ \E e \in 1..MaxEnrollments : UpdateEnrollment(e, Absent, "completed")

SpecConc == InitConc /\ [][NextConc]_vars

\* ------------------------------------------------------------- SpecPay
\* Scenario A: a student with totalFees 10000 pays 4000
ScenarioTotal == 10000
ScenarioAmount == 4000

\* paymentSchema.post('save') writes with findByIdAndUpdate inside try / catch:
\*   "evaluated" : $inc is applied and $set stores total - (paid + amount);
\*   "rejected"  : the write throws, the catch logs it and nothing is written.
HookOutcomes == {"evaluated", "rejected"}

\* Student.findByIdAndUpdate(this.student, ...) without the $set of pendingAmount
HookStudentWrite_NoRecompute(led, s, amount, o) ==
    IF s \notin DOMAIN led \/ o = "rejected"
    THEN led
    ELSE [led EXCEPT ![s].paidAmount = @ + amount]

\* Student.findByIdAndUpdate(this.student, ...) of the hook
HookStudentWrite(led, s, amount, o) ==
    IF s \notin DOMAIN led \/ o = "rejected"
    THEN led
    ELSE [led EXCEPT ![s] =
            [totalFees |-> led[s].totalFees,
             paidAmount |-> led[s].paidAmount + amount,
             pendingAmount |-> led[s].totalFees - (led[s].paidAmount + amount)]]

\* Enrollment.findByIdAndUpdate(this.enrollment, ...) without the $set of fees.pending
HookEnrollmentWrite_NoRecompute(enr, e, amount, o) ==
    IF e \notin DOMAIN enr \/ o = "rejected"
    THEN enr
    ELSE [enr EXCEPT ![e].paid = @ + amount]

\* Enrollment.findByIdAndUpdate(this.enrollment, ...) of the hook
HookEnrollmentWrite(enr, e, amount, o) ==
    IF e \notin DOMAIN enr \/ o = "rejected"
    THEN enr
    ELSE [enr EXCEPT ![e] =
            [@ EXCEPT !.paid = enr[e].paid + amount,
                      !.pending = enr[e].total - (enr[e].paid + amount)]]

\* a hook that repeats a failed write until it is applied
PaymentPostSave_Retry(led, enr, pay, o1, o2) ==
    [ledger |-> HookStudentWrite(led, pay.student, pay.amount, "evaluated"),
     enrollments |-> IF pay.enrollment = NoEnrollment
                     THEN enr
                     ELSE HookEnrollmentWrite(enr, pay.enrollment, pay.amount, "evaluated")]

\* paymentSchema.post('save'): runs after every save of a payment, whatever its
\* status; an exception in the first write skips the second
PaymentPostSave(led, enr, pay, o1, o2) ==
    [ledger |-> HookStudentWrite(led, pay.student, pay.amount, o1),
     enrollments |-> IF o1 = "rejected" \/ pay.enrollment = NoEnrollment
                     THEN enr
                     ELSE HookEnrollmentWrite(enr, pay.enrollment, pay.amount, o2)]

\* POST /api/payments with req.body = {student, enrollment?, amount, paymentMode,
\* status?}: the body is spread into the document, the schema default of status
\* is pending, and admin and employee overwrite it with completed
CreatePayment(role, s, e, amount, status, o1, o2) ==
    /\ paySeq < MaxPayments
    /\ LET id == paySeq + 1
           pay == [student |-> s, enrollment |-> e, amount |-> amount,
                   status |-> IF role \in {"admin", "employee"} THEN "completed"
                              ELSE IF status = AbsentStatus THEN "pending"
                              ELSE status]
           after == PaymentPostSave(ledger, enrollments, pay, o1, o2)
       IN /\ payments' = Put(payments, id, pay)
          /\ paySeq' = id
          /\ ledger' = after.ledger
          /\ enrollments' = after.enrollments
    /\ resp' = Response("createPayment", 201, "Created")
    /\ UNCHANGED <<oidSeq, batches, studentRefs, courseStats, procs, idVars, extVars>>

\* POST /api/students/:id/payment with req.body = {amount, paymentMode}
StudentUpdatePayment(s, amount, o1) ==
    /\ UNCHANGED <<oidSeq, batches, studentRefs, courseStats, procs, idVars, extVars>>
    /\ IF s \notin DOMAIN ledger
       THEN /\ resp' = Response("updatePayment", 404, "StudentNotFound")
            /\ UNCHANGED <<enrollments, ledger, payVars>>
       ELSE LET \* student.updatePayment(amount): studentSchema.methods.updatePayment
                paidAmount == ledger[s].paidAmount + amount
                pendingAmount == ledger[s].totalFees - paidAmount
                saved == [ledger EXCEPT ![s] =
                             StudentPreSave([totalFees |-> ledger[s].totalFees,
                                             paidAmount |-> paidAmount,
                                             pendingAmount |-> pendingAmount])]
                id == paySeq + 1
                pay == [student |-> s, enrollment |-> NoEnrollment, amount |-> amount,
                        status |-> "completed"]
                after == PaymentPostSave(saved, enrollments, pay, o1, o1)
            IN IF pendingAmount < 0
               THEN \* this.save() fails the min: 0 validator of pendingAmount
                    /\ resp' = Response("updatePayment", 500, "ServerError")
                    /\ UNCHANGED <<enrollments, ledger, payVars>>
               ELSE /\ paySeq < MaxPayments
                    /\ payments' = Put(payments, id, pay)
                    /\ paySeq' = id
                    /\ ledger' = after.ledger
                    /\ enrollments' = after.enrollments
                    /\ resp' = Response("updatePayment", 200, "Recorded")

\* PUT /api/payments/:id/verify
VerifyPayment(p, o1, o2) ==
    /\ UNCHANGED <<oidSeq, batches, studentRefs, courseStats, procs, idVars, paySeq, extVars>>
    /\ IF p \notin DOMAIN payments
       THEN /\ resp' = Response("verifyPayment", 404, "PaymentNotFound")
            /\ UNCHANGED <<enrollments, ledger, payments>>
       ELSE IF payments[p].status = "completed"
       THEN /\ resp' = Response("verifyPayment", 400, "AlreadyVerified")
            /\ UNCHANGED <<enrollments, ledger, payments>>
       ELSE LET pay == [payments[p] EXCEPT !.status = "completed"]
                after == PaymentPostSave(ledger, enrollments, pay, o1, o2)
            IN /\ payments' = [payments EXCEPT ![p] = pay]
               /\ ledger' = after.ledger
               /\ enrollments' = after.enrollments
               /\ resp' = Response("verifyPayment", 200, "Verified")

\* students created with the Scenario A payment plan: studentSchema.pre('save')
\* has computed pendingAmount
InitPay ==
    /\ enrollments = <<>>
    /\ oidSeq = 0
    /\ batches = [b \in SeatBatches |->
                    [maxStudents |-> MaxSeats, currentStudents |-> 0, students |-> <<>>]]
    /\ studentRefs = [s \in Students |-> <<>>]
    /\ ledger = [s \in Students |->
                    StudentPreSave([totalFees |-> ScenarioTotal, paidAmount |-> 0,
                                    pendingAmount |-> 0])]
    /\ courseStats = [c \in Courses |->
                        [totalEnrolled |-> 0, active |-> 0, completed |-> 0, dropout |-> 0]]
    /\ resp = NoResponse
    /\ procs = NoProcs
    /\ InitAux

\* every request names student 1 (or the id NumStudents + 1 of no document)
NextPay ==
    \/ \E s \in {1, NumStudents + 1} : EnrollStudent(s, 1, NoBatch, ScenarioTotal)
    \/ \E role \in {"admin", "counselor"}, e \in {NoEnrollment} \cup DOMAIN enrollments,
          o1 \in HookOutcomes, o2 \in HookOutcomes :
          CreatePayment(role, 1, e, ScenarioAmount, AbsentStatus, o1, o2)
    \/ \E s \in {1, NumStudents + 1}, o1 \in HookOutcomes :
          StudentUpdatePayment(s, ScenarioAmount, o1)
    \/ \E p \in 1..MaxPayments, o1 \in HookOutcomes, o2 \in HookOutcomes :
          VerifyPayment(p, o1, o2)

SpecPay == InitPay /\ [][NextPay]_vars

\* --------------------------------------------------------- SpecCounter
\* decimal digits of a non-negative integer, most significant first: String(n)
RECURSIVE Digits(_)
Digits(n) == IF n < 10 THEN <<n>> ELSE Digits(n \div 10) \o <<n % 10>>

\* String.prototype.padStart(width, '0'): never truncates
PadStart(str, width) ==
    IF Len(str) >= width
    THEN str
    ELSE [i \in 1..(width - Len(str)) |-> 0] \o str

\* String.prototype.substr(-k): the last k characters
SubstrLast(str, k) ==
    IF Len(str) <= k THEN str ELSE SubSeq(str, Len(str) - k + 1, Len(str))

\* date.getFullYear() and date.getMonth() + 1 of new Date()
YearOf(c) == StartYear + ((StartMonth - 1 + c) \div 12)
MonthOf(c) == ((StartMonth - 1 + c) % 12) + 1

\* `receipt_${year}${month}`
ReceiptCounterName(c) ==
    <<"receipt_">> \o SubstrLast(Digits(YearOf(c)), 2) \o PadStart(Digits(MonthOf(c)), 2)

\* $inc that does not reach the stored document
IncSeq_LostUpdate(c, name) ==
    IF name \in DOMAIN c THEN c ELSE Put(c, name, 1)

\* Counter.findByIdAndUpdate(name, {$inc: {seq: 1}}, {new: true, upsert: true}):
\* one atomic read-modify-write on the counter document
IncSeq(c, name) ==
    IF name \in DOMAIN c THEN [c EXCEPT ![name] = @ + 1] ELSE Put(c, name, 1)

StudentIdOf(seq) == <<"STU">> \o PadStart(Digits(seq), 6)
EnrollmentIdOf(seq) == <<"ENR">> \o PadStart(Digits(seq), 8)
PaymentIdOf(seq) == <<"PAY">> \o PadStart(Digits(seq), 8)
ReceiptNumberOf(c, seq) ==
    <<"RCPT">> \o SubstrLast(Digits(YearOf(c)), 2) \o PadStart(Digits(MonthOf(c)), 2)
               \o PadStart(Digits(seq), 4)

Issue(name, seq, field, id) == [name |-> name, seq |-> seq, field |-> field, id |-> id]

\* studentSchema.pre('save') of a new student
GenStudentId(p) ==
    /\ callers[p].pc = "idle"
    /\ LET after == IncSeq(counters, <<"studentId">>)
           seq == after[<<"studentId">>]
       IN /\ counters' = after
          /\ issued' = Append(issued, Issue(<<"studentId">>, seq, "studentId", StudentIdOf(seq)))
    /\ callers' = [callers EXCEPT ![p].pc = "done"]
    /\ UNCHANGED <<dbVars, resp, procs, payVars, clock, extVars>>

\* enrollmentSchema.pre('save') of a new enrollment
GenEnrollmentId(p) ==
    /\ callers[p].pc = "idle"
    /\ LET after == IncSeq(counters, <<"enrollmentId">>)
           seq == after[<<"enrollmentId">>]
       IN /\ counters' = after
          /\ issued' = Append(issued,
                           Issue(<<"enrollmentId">>, seq, "enrollmentId", EnrollmentIdOf(seq)))
    /\ callers' = [callers EXCEPT ![p].pc = "done"]
    /\ UNCHANGED <<dbVars, resp, procs, payVars, clock, extVars>>

\* paymentSchema.pre('save') of a new payment, up to the first await
GenPaymentId(p) ==
    /\ callers[p].pc = "idle"
    /\ LET after == IncSeq(counters, <<"paymentId">>)
           seq == after[<<"paymentId">>]
       IN /\ counters' = after
          /\ issued' = Append(issued, Issue(<<"paymentId">>, seq, "paymentId", PaymentIdOf(seq)))
    /\ callers' = [callers EXCEPT ![p].pc = "receipt"]
    /\ UNCHANGED <<dbVars, resp, procs, payVars, clock, extVars>>

\* paymentSchema.pre('save'), the receipt number
GenReceiptNumber(p) ==
    /\ callers[p].pc = "receipt"
    /\ LET name == ReceiptCounterName(clock)
           after == IncSeq(counters, name)
           seq == after[name]
       IN /\ counters' = after
          /\ issued' = Append(issued,
                           Issue(name, seq, "receiptNumber", ReceiptNumberOf(clock, seq)))
    /\ callers' = [callers EXCEPT ![p].pc = "done"]
    /\ UNCHANGED <<dbVars, resp, procs, payVars, clock, extVars>>

\* the calendar month changes
Tick ==
    /\ clock < MaxTicks
    /\ clock' = clock + 1
    /\ UNCHANGED <<dbVars, resp, procs, payVars, counters, issued, callers, extVars>>

\* the id counters are seeded, or the Counter collection is empty
InitCounter ==
    /\ InitDb(SeatBatches)
    /\ resp = NoResponse
    /\ procs = NoProcs
    /\ payments = <<>>
    /\ paySeq = 0
    /\ counters \in {SeededCounters, <<>>}
    /\ issued = <<>>
    /\ callers = NoCallers
    /\ clock = 0
    /\ attendance = <<>>
    /\ attSeq = 0
    /\ leads = <<>>
    /\ students = <<>>
    /\ InitLms

NextCounter ==
    \/ \E p \in Procs : GenStudentId(p)
    \/ \E p \in Procs : GenEnrollmentId(p)
    \/ \E p \in Procs : GenPaymentId(p)
    \/ \E p \in Procs : GenReceiptNumber(p)
    \/ Tick

SpecCounter == InitCounter /\ [][NextCounter]_vars

\* ----------------------------------------------------------- SpecStats
\* updateCourseEnrollmentStats(courseId) / Course.updateEnrollmentStats()
UpdateCourseEnrollmentStats(c) ==
    /\ courseStats' = [courseStats EXCEPT ![c] = RecountStats(enrollments, c)]
    /\ resp' = Response("updateCourseEnrollmentStats", 0, "none")
    /\ UNCHANGED <<enrollments, oidSeq, batches, studentRefs, ledger, auxVars>>

\* the Enrollment collections of up to MaxDocs documents of course 1, one student each
StatsCollections ==
    UNION {{[e \in 1..n |-> NewEnrollment(e, 1, NoBatch, f[e], MaxFee)] :
               f \in [1..n -> EnrollmentStatuses]} : n \in 0..MaxDocs}

\* any mix of statuses; statistics not yet computed
InitStats ==
    /\ InitAux
    /\ enrollments \in StatsCollections
    /\ oidSeq = Len(enrollments)
    /\ batches = [b \in SeatBatches |->
                    [maxStudents |-> MaxSeats, currentStudents |-> 0, students |-> <<>>]]
    /\ studentRefs = [s \in Students |-> <<>>]
    /\ ledger = [s \in Students |-> [totalFees |-> 0, paidAmount |-> 0, pendingAmount |-> 0]]
    /\ courseStats = [c \in Courses |->
                        [totalEnrolled |-> 0, active |-> 0, completed |-> 0, dropout |-> 0]]
    /\ resp = NoResponse
    /\ procs = NoProcs

NextStats ==
    \/ \E c \in Courses : UpdateCourseEnrollmentStats(c)
    \/ \E e \in 1..MaxDocs, st \in {"active", "completed", "dropped"} :
          UpdateEnrollment(e, Absent, st)

SpecStats == InitStats /\ [][NextStats]_vars

\* --------------------------------------------------------- SpecModules
ModuleIds == 1..NumModules
\* req.body.score
ModuleScores == {50, 100}

\* completedModules.findIndex that never finds the module
FindModuleIndex_NeverFound(list, m) == 0

\* completedModules.findIndex(x => x.moduleId.toString() === moduleId.toString()),
\* 1-based, 0 when there is none
FindModuleIndex(list, m) ==
    IF \E i \in 1..Len(list) : list[i].moduleId = m
    THEN CHOOSE i \in 1..Len(list) :
            /\ list[i].moduleId = m
            /\ \A j \in 1..(i - 1) : list[j].moduleId # m
    ELSE 0

\* enrollmentSchema.methods.completeModule, up to this.save()
CompleteModule(doc, m, score) ==
    LET moduleCompletion == [moduleId |-> m, score |-> score]
        existingIndex == FindModuleIndex(doc.completedModules, m)
    IN IF existingIndex >= 1
       THEN [doc EXCEPT !.completedModules[existingIndex] = moduleCompletion]
       ELSE [doc EXCEPT !.completedModules = Append(@, moduleCompletion)]

\* PUT /api/enrollments/:id/progress with req.body = {moduleId, score}
UpdateProgress(e, m, score) ==
    /\ UNCHANGED auxVars
    /\ UNCHANGED <<oidSeq, batches, studentRefs, ledger, courseStats>>
    /\ IF e \notin DOMAIN enrollments
       THEN /\ resp' = Response("updateProgress", 404, "EnrollmentNotFound")
            /\ UNCHANGED enrollments
       ELSE /\ enrollments' = [enrollments EXCEPT
                                 ![e] = EnrollmentPreSave(CompleteModule(enrollments[e], m, score))]
            /\ resp' = Response("updateProgress", 200, "ProgressUpdated")

InitModules ==
    /\ InitDb(SeatBatches)
    /\ resp = NoResponse
    /\ procs = NoProcs
    /\ InitAux

NextModules ==
    \/ \E b \in SeatBatches \cup {NoBatch} : CreateEnrollment(1, 1, b, "pending", MaxFee)
    \/ \E e \in 1..MaxEnrollments, m \in ModuleIds, score \in ModuleScores :
          UpdateProgress(e, m, score)

SpecModules == InitModules /\ [][NextModules]_vars

\* ------------------------------------------------------------- SpecAtt
\* Attendance documents and the attendance array embedded in an enrollment.
AttDates == 1..NumDates
AttSessions == {1, 2}
AttStatuses == {"present", "absent"}
Roles == {"admin", "trainer"}

attFrame == <<oidSeq, batches, studentRefs, ledger, courseStats, procs, payments, paySeq,
              counters, issued, callers, clock, leads, students, lmsVars>>

\* findOne returns the first matching document in insertion order
FirstOf(S) == CHOOSE e \in S : \A x \in S : e <= x

\* the filter accepts any enrollment of the student in the batch
ActiveInBatch_AnyStatus(enr, s, b) ==
    {e \in DOMAIN enr : enr[e].student = s /\ enr[e].batch = b}

\* Enrollment.findOne({ student, batch, status: 'active' })
ActiveInBatch(enr, s, b) ==
    {e \in DOMAIN enr :
        enr[e].student = s /\ enr[e].batch = b /\ enr[e].status = "active"}

\* Enrollment.findOneAndUpdate({ student, batch }, ...)
InBatch(enr, s, b) == {e \in DOMAIN enr : enr[e].student = s /\ enr[e].batch = b}

\* Attendance.findOne({ student, batch, session, date })
ExistingAttendance(att, s, b, session, date) ==
    \E a \in DOMAIN att :
        /\ att[a].student = s
        /\ att[a].batch = b
        /\ att[a].session = session
        /\ att[a].date = date

\* attendanceSchema.index({ student: 1, batch: 1, date: 1 }, { unique: true })
AttendanceIndexViolated(att, s, b, date) ==
    \E a \in DOMAIN att :
        att[a].student = s /\ att[a].batch = b /\ att[a].date = date

NewAttendance(s, b, session, date, status) ==
    [student |-> s, batch |-> b, session |-> session, date |-> date,
     status |-> status, isApproved |-> FALSE]

EmbeddedEntry(date, session, status) ==
    [date |-> date, session |-> session, status |-> status]

\* enrollmentSchema.methods.markAttendance without its save()
EmbeddedUpsert(list, date, session, status) ==
    LET hits == {i \in DOMAIN list : list[i].session = session /\ list[i].date = date}
    IN  IF hits # {}
        THEN [list EXCEPT ![FirstOf(hits)] = EmbeddedEntry(date, session, status)]
        ELSE Append(list, EmbeddedEntry(date, session, status))

\* POST /api/attendance
MarkAttendance(s, b, session, date, status) ==
    /\ UNCHANGED attFrame
    /\ IF s \notin Students
       THEN /\ resp' = Response("markAttendance", 404, "StudentNotFound")
            /\ UNCHANGED <<enrollments, attendance, attSeq>>
       ELSE IF b # NoBatch /\ ActiveInBatch(enrollments, s, b) = {}
       THEN /\ resp' = Response("markAttendance", 400, "NotEnrolledInBatch")
            /\ UNCHANGED <<enrollments, attendance, attSeq>>
       ELSE IF ExistingAttendance(attendance, s, b, session, date)
       THEN /\ resp' = Response("markAttendance", 400, "AlreadyMarked")
            /\ UNCHANGED <<enrollments, attendance, attSeq>>
       ELSE IF AttendanceIndexViolated(attendance, s, b, date)
       THEN /\ resp' = Response("markAttendance", 500, "ServerError")
            /\ UNCHANGED <<enrollments, attendance, attSeq>>
       ELSE /\ attSeq' = attSeq + 1
            /\ attendance' = Put(attendance, attSeq + 1,
                                 NewAttendance(s, b, session, date, status))
            /\ IF b # NoBatch /\ InBatch(enrollments, s, b) # {}
               THEN LET e == FirstOf(InBatch(enrollments, s, b))
                    IN  enrollments' =
                            [enrollments EXCEPT ![e].attendance =
                                Append(@, EmbeddedEntry(date, session, status))]
               ELSE UNCHANGED enrollments
            /\ resp' = Response("markAttendance", 201, "AttendanceMarked")

\* POST /api/students/:id/attendance
StudentMarkAttendance(s, b, session, date, status) ==
    /\ UNCHANGED attFrame
    /\ IF s \notin Students
       THEN /\ resp' = Response("studentMarkAttendance", 404, "StudentNotFound")
            /\ UNCHANGED <<enrollments, attendance, attSeq>>
       ELSE IF ActiveInBatch(enrollments, s, b) = {}
       THEN /\ resp' = Response("studentMarkAttendance", 400, "NotEnrolledInBatch")
            /\ UNCHANGED <<enrollments, attendance, attSeq>>
       ELSE IF AttendanceIndexViolated(attendance, s, b, date)
       THEN /\ resp' = Response("studentMarkAttendance", 500, "ServerError")
            /\ UNCHANGED <<enrollments, attendance, attSeq>>
       ELSE LET e == FirstOf(ActiveInBatch(enrollments, s, b))
            IN  /\ attSeq' = attSeq + 1
                /\ attendance' = Put(attendance, attSeq + 1,
                                     NewAttendance(s, b, session, date, status))
                /\ enrollments' =
                       [enrollments EXCEPT ![e] =
                           EnrollmentPreSave(
                               [@ EXCEPT !.attendance =
                                   EmbeddedUpsert(@, date, session, status)])]
                /\ resp' = Response("studentMarkAttendance", 201, "AttendanceMarked")

\* the lock that exempts trainers as well
ApprovedLock_TrainerExempt(doc, role) == doc.isApproved /\ role \notin {"admin", "trainer"}

\* attendance.isApproved && req.user.role !== 'admin'
ApprovedLock(doc, role) == doc.isApproved /\ role # "admin"

\* request bodies of PUT /api/attendance/:id: a status and, optionally, isApproved
\* and session
ApproveChoices == {"unset", "true", "false"}

\* 'attendance.$.status': the first embedded entry of that date
SetEmbeddedStatus(list, date, status) ==
    LET hits == {i \in DOMAIN list : list[i].date = date}
    IN  [list EXCEPT ![FirstOf(hits)].status = status]

\* PUT /api/attendance/:id
UpdateAttendance(a, role, status, approve, session) ==
    /\ UNCHANGED <<attFrame, attSeq>>
    /\ IF a \notin DOMAIN attendance
       THEN /\ resp' = Response("updateAttendance", 404, "AttendanceNotFound")
            /\ UNCHANGED <<enrollments, attendance>>
       ELSE IF ApprovedLock(attendance[a], role)
       THEN /\ resp' = Response("updateAttendance", 403, "ApprovedLocked")
            /\ UNCHANGED <<enrollments, attendance>>
       ELSE LET doc == [attendance[a] EXCEPT
                           !.status = status,
                           !.isApproved = IF approve = "unset" THEN @ ELSE approve = "true",
                           !.session = IF session = Absent THEN @ ELSE session]
                hits == {e \in InBatch(enrollments, doc.student, doc.batch) :
                            \E i \in DOMAIN enrollments[e].attendance :
                                enrollments[e].attendance[i].date = doc.date}
            IN  /\ attendance' = [attendance EXCEPT ![a] = doc]
                /\ IF doc.batch # NoBatch /\ hits # {}
                   THEN enrollments' =
                            [enrollments EXCEPT ![FirstOf(hits)].attendance =
                                SetEmbeddedStatus(@, doc.date, doc.status)]
                   ELSE UNCHANGED enrollments
                /\ resp' = Response("updateAttendance", 200, "AttendanceUpdated")

\* DELETE /api/attendance/:id
DeleteAttendance(a, role) ==
    /\ UNCHANGED <<attFrame, attSeq>>
    /\ IF a \notin DOMAIN attendance
       THEN /\ resp' = Response("deleteAttendance", 404, "AttendanceNotFound")
            /\ UNCHANGED <<enrollments, attendance>>
       ELSE IF ApprovedLock(attendance[a], role)
       THEN /\ resp' = Response("deleteAttendance", 403, "ApprovedLocked")
            /\ UNCHANGED <<enrollments, attendance>>
       ELSE LET doc == attendance[a]
                hits == InBatch(enrollments, doc.student, doc.batch)
            IN  /\ IF doc.batch # NoBatch /\ hits # {}
                   THEN enrollments' =
                            [enrollments EXCEPT ![FirstOf(hits)].attendance =
                                SelectSeq(@, LAMBDA x :
                                    ~(x.date = doc.date /\ x.session = doc.session))]
                   ELSE UNCHANGED enrollments
                /\ attendance' = Remove(attendance, a)
                /\ resp' = Response("deleteAttendance", 200, "AttendanceDeleted")

InitAtt ==
    /\ InitDb(SeatBatches)
    /\ resp = NoResponse
    /\ procs = NoProcs
    /\ InitAux

\* one student, one batch; the enrollment is created pending or active
NextAtt ==
    \/ \E st \in {"pending", "active"} : CreateEnrollment(1, 1, 1, st, MaxFee)
    \/ \E e \in 1..MaxEnrollments, st \in {"active", "dropped"} :
          UpdateEnrollment(e, Absent, st)
    \/ \E session \in AttSessions, date \in AttDates, status \in AttStatuses :
          /\ attSeq < MaxAttendance
          /\ MarkAttendance(1, 1, session, date, status)
    \/ \E session \in AttSessions, date \in AttDates, status \in AttStatuses :
          /\ attSeq < MaxAttendance
          /\ StudentMarkAttendance(1, 1, session, date, status)
    \/ \E a \in 1..MaxAttendance, role \in Roles, approve \in ApproveChoices :
          UpdateAttendance(a, role, "absent", approve, Absent)
    \/ \E a \in 1..MaxAttendance, role \in Roles : DeleteAttendance(a, role)

SpecAtt == InitAtt /\ [][NextAtt]_vars

\* the same requests, with updates whose body also names a session
NextMirror ==
    \/ NextAtt
    \/ \E a \in 1..MaxAttendance, status \in AttStatuses, session \in AttSessions :
          UpdateAttendance(a, "admin", status, "unset", session)

SpecMirror == InitAtt /\ [][NextMirror]_vars

\* ------------------------------------------------------------- SpecPct
\* The attendance percentage of an enrollment's embedded attendance list.
EmbeddedStatuses == {"present", "absent", "late", "leave"}

\* the filter that counts only 'present'
PresentDays_PresentOnly(list) ==
    Cardinality({i \in DOMAIN list : list[i].status = "present"})

\* attendance.filter(session => session.status === 'present' || session.status === 'late').length
PresentDays(list) ==
    Cardinality({i \in DOMAIN list : list[i].status = "present" \/ list[i].status = "late"})

calculateAttendancePercentage(list) ==
    IF Len(list) = 0 THEN 0 ELSE MathRound(PresentDays(list) * 100, Len(list))

\* res.json({ success, message, data })
DataResponse(op, status, msg, data) ==
    [op |-> op, status |-> status, msg |-> msg, data |-> data]

\* GET /api/enrollments/:id
GetEnrollmentById(e) ==
    /\ UNCHANGED <<dbVars, auxVars>>
    /\ IF e \notin DOMAIN enrollments
       THEN resp' = Response("getEnrollmentById", 404, "EnrollmentNotFound")
       ELSE resp' = DataResponse("getEnrollmentById", 200, "Enrollment",
                        calculateAttendancePercentage(enrollments[e].attendance))

\* POST /api/enrollments/:id/attendance
EnrollmentMarkAttendance(e, date, session, status) ==
    /\ UNCHANGED <<oidSeq, batches, studentRefs, ledger, courseStats, auxVars>>
    /\ IF e \notin DOMAIN enrollments
       THEN /\ resp' = Response("enrollmentMarkAttendance", 404, "EnrollmentNotFound")
            /\ UNCHANGED enrollments
       ELSE LET list == EmbeddedUpsert(enrollments[e].attendance, date, session, status)
            IN  /\ enrollments' =
                       [enrollments EXCEPT ![e] =
                           EnrollmentPreSave([@ EXCEPT !.attendance = list])]
                /\ resp' = DataResponse("enrollmentMarkAttendance", 200, "AttendanceMarked",
                               calculateAttendancePercentage(list))

\* every attendance list of up to MaxMarks entries, one session a day
AttendanceLists ==
    UNION {{[i \in 1..n |-> EmbeddedEntry(i, 1, f[i])] : f \in [1..n -> EmbeddedStatuses]} :
              n \in 0..MaxMarks}

InitPct ==
    /\ InitAux
    /\ \E list \in AttendanceLists :
          enrollments = <<[NewEnrollment(1, 1, NoBatch, "active", MaxFee)
                              EXCEPT !.attendance = list]>>
    /\ oidSeq = 1
    /\ batches = [b \in SeatBatches |->
                    [maxStudents |-> MaxSeats, currentStudents |-> 0, students |-> <<>>]]
    /\ studentRefs = [s \in Students |-> <<>>]
    /\ ledger = [s \in Students |-> [totalFees |-> 0, paidAmount |-> 0, pendingAmount |-> 0]]
    /\ courseStats = [c \in Courses |->
                        [totalEnrolled |-> 0, active |-> 0, completed |-> 0, dropout |-> 0]]
    /\ resp = NoResponse
    /\ procs = NoProcs

\* a day is marked again or the next day is added
NextPct ==
    \/ \E e \in {1, 2} : GetEnrollmentById(e)
    \/ \E e \in {1, 2}, status \in EmbeddedStatuses :
          \E date \in 1..Len(enrollments[1].attendance) + 1 :
              /\ date <= MaxMarks
              /\ EnrollmentMarkAttendance(e, date, 1, status)

SpecPct == InitPct /\ [][NextPct]_vars

\* ------------------------------------------------------------ SpecLead
\* Leads and their conversion to students.
Phones == 1..NumPhones
NoStudent == 0
ConvertedChoices == {"unset", "true", "false"}

leadFrame == <<dbVars, procs, payments, paySeq, counters, issued, callers, clock,
               attendance, attSeq, lmsVars>>

\* Lead.findOne({ phone })
LeadWithPhone(ls, phone) == {l \in DOMAIN ls : ls[l].phone = phone}

\* POST /api/leads
CreateLead(phone) ==
    /\ UNCHANGED <<leadFrame, students>>
    /\ IF LeadWithPhone(leads, phone) # {}
       THEN /\ resp' = Response("createLead", 400, "LeadPhoneExists")
            /\ UNCHANGED leads
       ELSE /\ leads' = Append(leads, [phone |-> phone, convertedToStudent |-> FALSE,
                                       convertedStudentId |-> NoStudent])
            /\ resp' = Response("createLead", 201, "LeadCreated")

\* PUT /api/leads/:id with a body that may name phone and convertedToStudent
UpdateLead(l, phone, converted) ==
    /\ UNCHANGED <<leadFrame, students>>
    /\ IF l \notin DOMAIN leads
       THEN /\ resp' = Response("updateLead", 404, "LeadNotFound")
            /\ UNCHANGED leads
       ELSE IF phone # leads[l].phone /\ LeadWithPhone(leads, phone) \ {l} # {}
       THEN /\ resp' = Response("updateLead", 400, "LeadPhoneExists")
            /\ UNCHANGED leads
       ELSE /\ leads' = [leads EXCEPT
                            ![l].phone = phone,
                            ![l].convertedToStudent =
                                IF converted = "unset" THEN @ ELSE converted = "true"]
            /\ resp' = Response("updateLead", 200, "LeadUpdated")

\* the studentData that convertToStudent builds: no studentId, no paymentPlan
StudentDataOf(ls, l) ==
    [phone |-> ls[l].phone, leadSource |-> l, totalFees |-> Absent]

\* studentSchema: paymentPlan.totalFees { type: Number, required: true }
StudentValidates(data) == data.totalFees # Absent

\* studentSchema.index({ 'personalDetails.phone': 1 }, { unique: true })
StudentPhoneTaken(sts, phone) == \E i \in DOMAIN sts : sts[i].phone = phone

\* POST /api/leads/:id/convert
ConvertToStudent(l) ==
    /\ UNCHANGED leadFrame
    /\ IF l \notin DOMAIN leads
       THEN /\ resp' = Response("convertToStudent", 404, "LeadNotFound")
            /\ UNCHANGED <<leads, students>>
       ELSE IF leads[l].convertedToStudent
       THEN /\ resp' = Response("convertToStudent", 400, "AlreadyConverted")
            /\ UNCHANGED <<leads, students>>
       ELSE IF ~StudentValidates(StudentDataOf(leads, l))
       THEN /\ resp' = Response("convertToStudent", 500, "ServerError")
            /\ UNCHANGED <<leads, students>>
       ELSE IF StudentPhoneTaken(students, leads[l].phone)
       THEN /\ resp' = Response("convertToStudent", 400, "StudentExists")
            /\ UNCHANGED <<leads, students>>
       ELSE /\ students' = Append(students, StudentDataOf(leads, l))
            /\ leads' = [leads EXCEPT ![l].convertedToStudent = TRUE,
                                      ![l].convertedStudentId = Len(students) + 1]
            /\ resp' = Response("convertToStudent", 201, "LeadConverted")

InitLead ==
    /\ InitDb(SeatBatches)
    /\ resp = NoResponse
    /\ procs = NoProcs
    /\ InitAux

NextLead ==
    \/ \E phone \in Phones : Len(leads) < MaxLeads /\ CreateLead(phone)
    \/ \E l \in 1..MaxLeads, phone \in Phones, converted \in ConvertedChoices :
          UpdateLead(l, phone, converted)
    \/ \E l \in 1..MaxLeads : ConvertToStudent(l)

SpecLead == InitLead /\ [][NextLead]_vars

\* ------------------------------------------------------------ SpecRace
\* Concurrent addStudentToBatch requests.  A request loads the batch document,
\* checks the loaded copy and saves it; other requests may run in between.
RaceIdle == [pc |-> "idle", batch |-> NoBatch, student |-> 0, doc |-> <<>>, status |-> 0]

raceFrame == <<enrollments, oidSeq, studentRefs, ledger, courseStats, payVars, idVars,
               extVars>>

\* a save that is refused when the stored roster differs from the loaded one
SaveAccepted_Versioned(stored, doc) == stored.students = doc.students

\* batch.save() after students.push: the update carries no condition on the
\* stored document
SaveAccepted(stored, doc) == TRUE

\* the update batch.save() sends: $push of the new roster entry, $set of the
\* currentStudents computed from the loaded document
SaveBatch(stored, doc, s) ==
    [stored EXCEPT !.students = Append(@, [student |-> s, status |-> "active"]),
                   !.currentStudents = doc.currentStudents + 1]

\* Batch.findById, Student.findById (lines 293-294)
AB_Load(p, b, s) ==
    /\ procs[p].pc = "idle"
    /\ procs' = [procs EXCEPT ![p] = [RaceIdle EXCEPT !.pc = "ab_loaded", !.batch = b,
                                                      !.student = s, !.doc = batches[b]]]
    /\ UNCHANGED <<batches, resp, raceFrame>>

\* the checks on the loaded document and batch.save() (lines 296-337)
AB_Save(p) ==
    LET b == procs[p].batch
        s == procs[p].student
        doc == procs[p].doc
        Done(status) == [procs EXCEPT ![p].pc = "ab_done", ![p].status = status]
    IN  /\ procs[p].pc = "ab_loaded"
        /\ UNCHANGED raceFrame
        /\ IF s \notin DOMAIN ledger
           THEN /\ resp' = Response("addStudentToBatch", 404, "StudentNotFound")
                /\ procs' = Done(404)
                /\ UNCHANGED batches
           ELSE IF BatchIsFull(doc)
           THEN /\ resp' = Response("addStudentToBatch", 400, "BatchFull")
                /\ procs' = Done(400)
                /\ UNCHANGED batches
           ELSE IF RosterIndex(doc.students, s) # 0
           THEN /\ resp' = Response("addStudentToBatch", 400, "AlreadyInBatch")
                /\ procs' = Done(400)
                /\ UNCHANGED batches
           ELSE IF ~SaveAccepted(batches[b], doc)
           THEN /\ resp' = Response("addStudentToBatch", 500, "ServerError")
                /\ procs' = Done(500)
                /\ UNCHANGED batches
           ELSE /\ batches' = [batches EXCEPT ![b] = SaveBatch(@, doc, s)]
                /\ resp' = Response("addStudentToBatch", 200, "Added")
                /\ procs' = Done(200)

\* the next request of the same client
AB_Return(p) ==
    /\ procs[p].pc = "ab_done"
    /\ Len(batches[procs[p].batch].students) <= batches[procs[p].batch].maxStudents
    /\ procs' = [procs EXCEPT ![p] = RaceIdle]
    /\ UNCHANGED <<batches, resp, raceFrame>>

\* batches of every capacity up to MaxSeats, empty
InitRace ==
    /\ \E m \in 1..MaxSeats :
          batches = [b \in SeatBatches |->
                        [maxStudents |-> m, currentStudents |-> 0, students |-> <<>>]]
    /\ enrollments = <<>>
    /\ oidSeq = 0
    /\ studentRefs = [s \in Students |-> <<>>]
    /\ ledger = [s \in Students |-> [totalFees |-> 0, paidAmount |-> 0, pendingAmount |-> 0]]
    /\ courseStats = [c \in Courses |->
                        [totalEnrolled |-> 0, active |-> 0, completed |-> 0, dropout |-> 0]]
    /\ resp = NoResponse
    /\ procs = [p \in Procs |-> RaceIdle]
    /\ InitAux

NextRace ==
    \/ \E p \in Procs, b \in SeatBatches, s \in DupStudents \cup {NumStudents + 1} :
          AB_Load(p, b, s)
    \/ \E p \in Procs : AB_Save(p)
    \/ \E p \in Procs : AB_Return(p)

SpecRace == InitRace /\ [][NextRace]_vars

\* ------------------------------------------------------------ SpecMove
\* updateEnrollment with a body that names a batch, one store operation per
\* step; the store may reject any write, which the handler answers with 500.
MoveIdle == [pc |-> "idle", enrollment |-> NoEnrollment, from |-> NoBatch, to |-> NoBatch,
             before |-> <<>>]

moveFrame == <<oidSeq, studentRefs, ledger, courseStats, payVars, idVars, extVars>>

StoreOutcomes == {"applied", "failed"}

\* Enrollment.findById, the assignment of req.body.batch and enrollment.save()
\* (lines 267-289)
UE_Save(p, e, b, outcome) ==
    /\ procs[p].pc = "idle"
    /\ UNCHANGED <<batches, moveFrame>>
    /\ IF e \notin DOMAIN enrollments
       THEN /\ resp' = Response("updateEnrollment", 404, "EnrollmentNotFound")
            /\ UNCHANGED <<enrollments, procs>>
       ELSE IF outcome = "failed"
       THEN /\ resp' = Response("updateEnrollment", 500, "ServerError")
            /\ UNCHANGED <<enrollments, procs>>
       ELSE LET oldBatch == enrollments[e].batch
                req == [MoveIdle EXCEPT !.enrollment = e, !.from = oldBatch, !.to = b,
                                        !.before = batches]
            IN  /\ enrollments' = [enrollments EXCEPT ![e] =
                                      EnrollmentPreSave([@ EXCEPT !.batch = b])]
                /\ IF oldBatch # NoBatch /\ b # NoBatch /\ oldBatch # b
                   THEN /\ procs' = [procs EXCEPT ![p] = [req EXCEPT !.pc = "ue_dec"]]
                        /\ UNCHANGED resp
                   ELSE /\ procs' = [procs EXCEPT ![p] = [req EXCEPT !.pc = "ue_done"]]
                        /\ resp' = Response("updateEnrollment", 200, "Updated")

\* Batch.findByIdAndUpdate(oldBatch, {$inc: {currentStudents: -1}}) (lines 293-296)
UE_DecOld(p, outcome) ==
    /\ procs[p].pc = "ue_dec"
    /\ UNCHANGED <<enrollments, moveFrame>>
    /\ IF outcome = "failed"
       THEN /\ resp' = Response("updateEnrollment", 500, "ServerError")
            /\ procs' = Goto(p, "ue_done")
            /\ UNCHANGED batches
       ELSE /\ batches' = IncBatch(batches, procs[p].from, -1)
            /\ InDrift(batches')
            /\ procs' = Goto(p, "ue_inc")
            /\ UNCHANGED resp

\* Batch.findByIdAndUpdate(enrollment.batch, {$inc: {currentStudents: 1}}) and
\* the response (lines 298-313)
UE_IncNew(p, outcome) ==
    /\ procs[p].pc = "ue_inc"
    /\ UNCHANGED <<enrollments, moveFrame>>
    /\ procs' = Goto(p, "ue_done")
    /\ IF outcome = "failed"
       THEN /\ resp' = Response("updateEnrollment", 500, "ServerError")
            /\ UNCHANGED batches
       ELSE /\ batches' = IncBatch(batches, procs[p].to, 1)
            /\ InDrift(batches')
            /\ resp' = Response("updateEnrollment", 200, "Updated")

\* the client's next request
UE_Return(p) ==
    /\ procs[p].pc = "ue_done"
    /\ procs' = [procs EXCEPT ![p] = MoveIdle]
    /\ UNCHANGED <<enrollments, batches, resp, moveFrame>>

InitMove ==
    /\ InitDb(Batches)
    /\ resp = NoResponse
    /\ procs = [p \in Procs |-> MoveIdle]
    /\ InitAux

\* one client; enrollments are created between its requests
NextMove ==
    \/ \E s \in DupStudents, b \in Batches :
          /\ procs[1].pc = "idle"
          /\ CreateEnrollment(s, 1, b, "pending", MaxFee)
    \/ \E e \in 1..MaxEnrollments, b \in Batches, outcome \in StoreOutcomes :
          UE_Save(1, e, b, outcome)
    \/ \E outcome \in StoreOutcomes : UE_DecOld(1, outcome)
    \/ \E outcome \in StoreOutcomes : UE_IncNew(1, outcome)
    \/ UE_Return(1)

SpecMove == InitMove /\ [][NextMove]_vars

\* ------------------------------------------------------------ SpecRate
\* The attendance percentage cached on a batch's roster entries.
rateFrame == <<enrollments, oidSeq, studentRefs, ledger, courseStats, procs, payVars, idVars,
               attendance, attSeq, leads, students, curriculum, contents>>

\* req.body.attendance: records {studentId, status} for one or two students
AttendanceBodies ==
    LET Rec == [student : DupStudents, status : EmbeddedStatuses]
    IN  {<<r>> : r \in Rec}
            \cup {<<r1, r2>> : r1 \in {r \in Rec : r.student = 1},
                               r2 \in {r \in Rec : r.student = 2}}

\* the forEach over req.body.attendance (part_001 lines 479-504): local holds
\* student.attendanceRecords, which is not a path of the roster schema and so
\* starts empty in every request; taken is the number of sessions with
\* attendanceTaken
RECURSIVE ForEachRecord(_, _, _, _, _)
ForEachRecord(records, roster, taken, local, pct) ==
    IF records = <<>>
    THEN pct
    ELSE LET r == Head(records)
             mine == Append(local[r.student], [status |-> r.status])
             attendedSessions ==
                 Cardinality({i \in DOMAIN mine :
                                 mine[i].status = "present" \/ mine[i].status = "late"})
         IN  IF RosterIndex(roster, r.student) = 0
             THEN ForEachRecord(Tail(records), roster, taken, local, pct)
             ELSE ForEachRecord(Tail(records), roster, taken,
                                [local EXCEPT ![r.student] = mine],
                                Put(pct, r.student,
                                    IF taken > 0
                                    THEN MathRound(attendedSessions * 100, taken)
                                    ELSE 0))

\* the records of a request that name a student of the roster
Recorded(records, roster, b) ==
    SelectSeq([i \in DOMAIN records |->
                  [batch |-> b, student |-> records[i].student, status |-> records[i].status]],
              LAMBDA x : RosterIndex(roster, x.student) # 0)

\* POST /api/batches/:id/sessions/:sessionIndex/attendance
BatchMarkAttendance(b, sessionIndex, records) ==
    /\ UNCHANGED <<batches, rateFrame>>
    /\ IF b \notin DOMAIN batches
       THEN /\ resp' = Response("batchMarkAttendance", 404, "BatchNotFound")
            /\ UNCHANGED <<batchSessions, rosterPct, attLog>>
       ELSE IF sessionIndex < 1 \/ sessionIndex > Len(batchSessions[b])
       THEN /\ resp' = Response("batchMarkAttendance", 400, "InvalidSessionIndex")
            /\ UNCHANGED <<batchSessions, rosterPct, attLog>>
       ELSE LET sessions == [batchSessions[b] EXCEPT ![sessionIndex] = TRUE]
                taken == Cardinality({i \in DOMAIN sessions : sessions[i]})
                roster == batches[b].students
                fresh == [s \in DupStudents |-> <<>>]
            IN  /\ batchSessions' = [batchSessions EXCEPT ![b] = sessions]
                /\ rosterPct' = [rosterPct EXCEPT ![b] =
                                    ForEachRecord(records, roster, taken, fresh, @)]
                /\ attLog' = attLog \o Recorded(records, roster, b)
                /\ resp' = Response("batchMarkAttendance", 200, "AttendanceMarked")

InitRate ==
    /\ InitDb(SeatBatches)
    /\ resp = NoResponse
    /\ procs = NoProcs
    /\ InitAux

NextRate ==
    \/ \E s \in DupStudents : AddStudentToBatch(1, s)
    \/ \E sessionIndex \in 0..NumSessions, records \in AttendanceBodies :
          /\ Len(attLog) + Len(records) <= MaxMarks
          /\ BatchMarkAttendance(1, sessionIndex, records)

SpecRate == InitRate /\ [][NextRate]_vars

\* ------------------------------------------------------------- SpecProgress
\* Module completion against a curriculum that course updates and course
\* deletion change.
CurriculumLengths == 0..NumModules

courseFrame == <<enrollments, oidSeq, batches, studentRefs, ledger, procs, payments, paySeq,
                 counters, issued, callers, clock, attendance, attSeq, leads, students,
                 contents, batchSessions, rosterPct, attLog>>

\* PUT /api/courses/:id with req.body = {curriculum: [n modules]}
UpdateCourse(c, n) ==
    /\ UNCHANGED <<courseFrame, courseStats>>
    /\ IF c \notin DOMAIN curriculum
       THEN /\ resp' = Response("updateCourse", 404, "CourseNotFound")
            /\ UNCHANGED curriculum
       ELSE /\ curriculum' = [curriculum EXCEPT ![c] = n]
            /\ resp' = Response("updateCourse", 200, "CourseUpdated")

\* Enrollment.countDocuments({course, status: 'active'})
ActiveEnrollmentsOfCourse(enr, c) ==
    Cardinality({e \in DOMAIN enr : enr[e].course = c /\ enr[e].status = "active"})

\* DELETE /api/courses/:id
DeleteCourse(c) ==
    /\ UNCHANGED courseFrame
    /\ IF c \notin DOMAIN curriculum
       THEN /\ resp' = Response("deleteCourse", 404, "CourseNotFound")
            /\ UNCHANGED <<curriculum, courseStats>>
       ELSE IF ActiveEnrollmentsOfCourse(enrollments, c) > 0
       THEN /\ resp' = Response("deleteCourse", 400, "HasActiveEnrollments")
            /\ UNCHANGED <<curriculum, courseStats>>
       ELSE /\ curriculum' = Remove(curriculum, c)
            /\ courseStats' = Remove(courseStats, c)
            /\ resp' = Response("deleteCourse", 200, "CourseDeleted")

InitProgress ==
    /\ InitDb(SeatBatches)
    /\ resp = NoResponse
    /\ procs = NoProcs
    /\ InitAux

NextProgress ==
    \/ CreateEnrollment(1, 1, NoBatch, "pending", MaxFee)
    \/ \E e \in 1..MaxEnrollments, m \in ModuleIds : UpdateProgress(e, m, 100)
    \/ \E n \in CurriculumLengths : UpdateCourse(1, n)
    \/ DeleteCourse(1)

SpecProgress == InitProgress /\ [][NextProgress]_vars

\* ------------------------------------------------------------- SpecSubmit
\* Assignment submissions on a content item and on the enrollment.
ContentIds == 1..3

submitFrame == <<oidSeq, batches, studentRefs, ledger, courseStats, procs, payments, paySeq,
                 counters, issued, callers, clock, attendance, attSeq, leads, students,
                 curriculum, batchSessions, rosterPct, attLog>>

\* a stored reference, as Mongoose hands it out: an ObjectId
ObjectIdOf(id) == [kind |-> "ObjectId", hex |-> id]

\* ObjectId.prototype.toString and req.params values: a string of hex digits
StringOf(id) == [kind |-> "String", hex |-> id]

\* x.toString()
ObjectIdToString(x) == StringOf(x.hex)

\* a === b: values of different types are never strictly equal
StrictEquals(a, b) == a.kind = b.kind /\ a.hex = b.hex

\* this.submissions.find(s => s.student.toString() === studentId), 0 when not found
FindSubmission(list, studentId) ==
    IF \E i \in 1..Len(list) : StrictEquals(ObjectIdToString(list[i].student), studentId)
    THEN CHOOSE i \in 1..Len(list) :
            /\ StrictEquals(ObjectIdToString(list[i].student), studentId)
            /\ \A j \in 1..(i - 1) : ~StrictEquals(ObjectIdToString(list[j].student), studentId)
    ELSE 0

\* contentSchema.methods.submitAssignment for a content of type assignment with
\* no due date
ContentSubmitAssignment(content, studentId) ==
    LET existingSubmission == FindSubmission(content.submissions, studentId)
        submission == [student |-> ObjectIdOf(studentId.hex), status |-> "submitted"]
    IN IF existingSubmission >= 1
       THEN [content EXCEPT !.submissions[existingSubmission] = submission]
       ELSE [content EXCEPT !.submissions = Append(@, submission),
                            !.statsSubmissions = @ + 1]

\* enrollment.progress.assignments.find(a => a.assignmentId.toString() === assignmentId)
FindAssignment(list, assignmentId) ==
    IF \E i \in 1..Len(list) : StrictEquals(ObjectIdToString(list[i].assignmentId), assignmentId)
    THEN CHOOSE i \in 1..Len(list) :
            /\ StrictEquals(ObjectIdToString(list[i].assignmentId), assignmentId)
            /\ \A j \in 1..(i - 1) :
                  ~StrictEquals(ObjectIdToString(list[j].assignmentId), assignmentId)
    ELSE 0

\* POST /api/enrollments/:id/assignments/:assignmentId/submit
SubmitAssignment(e, a) ==
    /\ UNCHANGED submitFrame
    /\ IF e \notin DOMAIN enrollments
       THEN /\ resp' = Response("submitAssignment", 404, "EnrollmentNotFound")
            /\ UNCHANGED <<enrollments, contents>>
       ELSE IF a \notin DOMAIN contents \/ contents[a].type # "assignment"
       THEN /\ resp' = Response("submitAssignment", 404, "AssignmentNotFound")
            /\ UNCHANGED <<enrollments, contents>>
       ELSE LET assignmentId == StringOf(a)
                assignmentProgress == [assignmentId |-> ObjectIdOf(a), status |-> "submitted"]
                existingAssignment == FindAssignment(enrollments[e].assignments, assignmentId)
            IN /\ Len(contents[a].submissions) < MaxSubmissions
               /\ contents' = [contents EXCEPT ![a] =
                                  ContentSubmitAssignment(@, ObjectIdOf(enrollments[e].student))]
               /\ enrollments' = [enrollments EXCEPT ![e] =
                     EnrollmentPreSave(
                        IF existingAssignment >= 1
                        THEN [@ EXCEPT !.assignments[existingAssignment] = assignmentProgress]
                        ELSE [@ EXCEPT !.assignments = Append(@, assignmentProgress)])]
               /\ resp' = Response("submitAssignment", 200, "Submitted")

InitSubmit ==
    /\ InitDb(SeatBatches)
    /\ resp = NoResponse
    /\ procs = NoProcs
    /\ InitAux

NextSubmit ==
    \/ \E s \in DupStudents : CreateEnrollment(s, 1, NoBatch, "pending", MaxFee)
    \/ \E e \in 1..MaxEnrollments, a \in ContentIds : SubmitAssignment(e, a)

SpecSubmit == InitSubmit /\ [][NextSubmit]_vars

\* ------------------------------------------------------------- SpecPerm
\* The permission matrices of the roles and the hasPermission middleware.
\* A matrix is a function from module name to its four flags.
UserRoles == {"admin", "employee", "counselor", "trainer", "student", "guest"}
PermissionActions == {"canView", "canCreate", "canEdit", "canDelete"}
PermissionModules == {"dashboard", "leads", "students", "courses", "enrollments", "payments",
                      "attendance", "content", "users", "reports"}

Flags(v, c, e, d) == [canView |-> v, canCreate |-> c, canEdit |-> e, canDelete |-> d]

\* p => ({...p, canView: true, canCreate: true, canEdit: true, canDelete: false})
Editor(p) == [p EXCEPT !.canView = TRUE, !.canCreate = TRUE, !.canEdit = TRUE,
                       !.canDelete = FALSE]

\* p => ({...p, canCreate: false, canEdit: false, canDelete: false})
ViewOnly(p) == [p EXCEPT !.canCreate = FALSE, !.canEdit = FALSE, !.canDelete = FALSE]

\* Array.prototype.filter by module name
FilterModules(perms, keep) == [m \in (DOMAIN perms) \cap keep |-> perms[m]]

\* utils/permissions.js: defaultPermissions
defaultPermissions ==
    [m \in PermissionModules |->
        CASE m = "dashboard" -> Flags(TRUE, FALSE, FALSE, FALSE)
          [] m = "leads" -> Flags(TRUE, TRUE, TRUE, FALSE)
          [] m = "students" -> Flags(TRUE, TRUE, TRUE, FALSE)
          [] m = "courses" -> Flags(TRUE, FALSE, FALSE, FALSE)
          [] m = "enrollments" -> Flags(TRUE, TRUE, TRUE, FALSE)
          [] m = "payments" -> Flags(TRUE, TRUE, FALSE, FALSE)
          [] m = "attendance" -> Flags(TRUE, TRUE, TRUE, FALSE)
          [] m = "content" -> Flags(TRUE, FALSE, FALSE, FALSE)
          [] m = "users" -> Flags(FALSE, FALSE, FALSE, FALSE)
          [] m = "reports" -> Flags(TRUE, FALSE, FALSE, FALSE)]

\* utils/permissions.js: getPermissionsByRole
getPermissionsByRole(role) ==
    CASE role = "admin" ->
            [m \in DOMAIN defaultPermissions |-> Flags(TRUE, TRUE, TRUE, TRUE)]
      [] role = "trainer" ->
            [m \in DOMAIN defaultPermissions |->
                IF m \in {"students", "attendance", "content", "courses"}
                THEN Editor(defaultPermissions[m]) ELSE defaultPermissions[m]]
      [] role = "counselor" ->
            [m \in DOMAIN defaultPermissions |->
                IF m \in {"leads", "students", "enrollments"}
                THEN Editor(defaultPermissions[m]) ELSE defaultPermissions[m]]
      [] role = "student" ->
            LET kept == FilterModules(defaultPermissions, {"dashboard", "courses", "content"})
            IN [m \in DOMAIN kept |-> ViewOnly(kept[m])]
      [] OTHER -> defaultPermissions

\* middleware/permissionMiddleware.js: defaultPermissions
middlewareDefaultPermissions ==
    [m \in PermissionModules \ {"enrollments"} |->
        CASE m = "dashboard" -> Flags(TRUE, FALSE, FALSE, FALSE)
          [] m = "leads" -> Flags(TRUE, TRUE, TRUE, FALSE)
          [] m = "students" -> Flags(TRUE, TRUE, TRUE, FALSE)
          [] m = "courses" -> Flags(TRUE, FALSE, FALSE, FALSE)
          [] m = "payments" -> Flags(TRUE, TRUE, FALSE, FALSE)
          [] m = "attendance" -> Flags(TRUE, TRUE, TRUE, FALSE)
          [] m = "content" -> Flags(TRUE, FALSE, FALSE, FALSE)
          [] m = "users" -> Flags(FALSE, FALSE, FALSE, FALSE)
          [] m = "reports" -> Flags(TRUE, FALSE, FALSE, FALSE)]

adminPermissions ==
    [m \in DOMAIN middlewareDefaultPermissions |-> Flags(TRUE, TRUE, TRUE, TRUE)]

trainerPermissions ==
    [m \in DOMAIN middlewareDefaultPermissions |->
        IF m \in {"students", "attendance", "content"}
        THEN Editor(middlewareDefaultPermissions[m]) ELSE middlewareDefaultPermissions[m]]

counselorPermissions ==
    [m \in DOMAIN middlewareDefaultPermissions |->
        IF m \in {"leads", "students"}
        THEN Editor(middlewareDefaultPermissions[m]) ELSE middlewareDefaultPermissions[m]]

\* middleware/permissionMiddleware.js: getPermissionsByRole
middlewareGetPermissionsByRole(role) ==
    CASE role = "admin" -> adminPermissions
      [] role = "trainer" -> trainerPermissions
      [] role = "counselor" -> counselorPermissions
      [] role = "employee" -> middlewareDefaultPermissions
      [] role = "student" ->
            LET kept == FilterModules(middlewareDefaultPermissions,
                                      {"dashboard", "courses", "content"})
            IN [m \in DOMAIN kept |-> ViewOnly(kept[m])]
      [] OTHER -> middlewareDefaultPermissions

\* hasPermission(module, action) for a user who holds the permissions the role
\* was given by register, createUser or changeUserRole
HasPermission(role, module, action) ==
    \/ role = "admin"
    \/ LET permissions == getPermissionsByRole(role)
       IN /\ module \in DOMAIN permissions
          /\ permissions[module][action]

permFrame == <<dbVars, auxVars>>

\* getPermissionsByRole(role) of utils/permissions.js, as register, createUser and
\* changeUserRole call it
GetPermissionsByRole(role) ==
    /\ resp' = DataResponse("getPermissionsByRole", 200, role, getPermissionsByRole(role))
    /\ UNCHANGED permFrame

\* getPermissionsByRole(role) of middleware/permissionMiddleware.js
MiddlewareGetPermissionsByRole(role) ==
    /\ resp' = DataResponse("middlewareGetPermissionsByRole", 200, role,
                            middlewareGetPermissionsByRole(role))
    /\ UNCHANGED permFrame

\* a request passing through hasPermission(module, action)
CheckPermission(role, module, action) ==
    /\ resp' = IF HasPermission(role, module, action)
               THEN DataResponse("hasPermission", 200, role, <<module, action>>)
               ELSE DataResponse("hasPermission", 403, role, <<module, action>>)
    /\ UNCHANGED permFrame

InitPerm ==
    /\ InitDb(SeatBatches)
    /\ resp = NoResponse
    /\ procs = NoProcs
    /\ InitAux

NextPerm ==
    \/ \E role \in UserRoles : GetPermissionsByRole(role)
    \/ \E role \in UserRoles : MiddlewareGetPermissionsByRole(role)
    \/ \E role \in UserRoles, module \in PermissionModules, action \in PermissionActions :
          CheckPermission(role, module, action)

SpecPerm == InitPerm /\ [][NextPerm]_vars

\* ------------------------------------------------------------- SpecLedger
\* The payment routes, with the middleware in front of the handlers; every write
\* of the post-save hook is applied.
LedgerRoles == {"admin", "employee", "counselor", "student"}

payFrame == <<oidSeq, batches, studentRefs, courseStats, procs, idVars, extVars>>

\* authorize(...roles)
Authorize(role, roles) == role \in roles

\* the 403 answer of authorize and hasPermission
Forbidden(op) ==
    /\ resp' = Response(op, 403, "Forbidden")
    /\ UNCHANGED <<dbVars, auxVars>>

\* PUT /api/payments/:id with req.body = {amount?, status?}
UpdatePayment(role, p, amount, status, o1, o2) ==
    /\ UNCHANGED <<payFrame, paySeq>>
    /\ IF p \notin DOMAIN payments
       THEN /\ resp' = Response("updatePayment", 404, "PaymentNotFound")
            /\ UNCHANGED <<enrollments, ledger, payments>>
       ELSE IF payments[p].status = "completed" /\ role # "admin"
       THEN /\ resp' = Response("updatePayment", 403, "CompletedPayment")
            /\ UNCHANGED <<enrollments, ledger, payments>>
       ELSE LET pay == [payments[p] EXCEPT
                           !.amount = IF amount = Absent THEN @ ELSE amount,
                           !.status = IF status = AbsentStatus THEN @ ELSE status]
                after == PaymentPostSave(ledger, enrollments, pay, o1, o2)
            IN /\ payments' = [payments EXCEPT ![p] = pay]
               /\ ledger' = after.ledger
               /\ enrollments' = after.enrollments
               /\ resp' = Response("updatePayment", 200, "Updated")

\* PUT /api/payments/:id/refund with req.body = {amount, reason}
RefundPayment(p, amount, o1, o2) ==
    /\ UNCHANGED <<payFrame, paySeq>>
    /\ IF p \notin DOMAIN payments
       THEN /\ resp' = Response("refundPayment", 404, "PaymentNotFound")
            /\ UNCHANGED <<enrollments, ledger, payments>>
       ELSE IF payments[p].status # "completed"
       THEN /\ resp' = Response("refundPayment", 400, "NotCompleted")
            /\ UNCHANGED <<enrollments, ledger, payments>>
       ELSE IF amount > payments[p].amount
       THEN /\ resp' = Response("refundPayment", 400, "RefundExceedsPayment")
            /\ UNCHANGED <<enrollments, ledger, payments>>
       ELSE LET pay == [payments[p] EXCEPT !.status = "refunded"]
                after == PaymentPostSave(ledger, enrollments, pay, o1, o2)
            IN /\ payments' = [payments EXCEPT ![p] = pay]
               /\ ledger' = after.ledger
               /\ enrollments' = after.enrollments
               /\ resp' = Response("refundPayment", 200, "Refunded")

\* router.post('/', hasPermission('payments', 'canCreate'), createPayment)
PostPayment(role, s, e, amount, status) ==
    IF HasPermission(role, "payments", "canCreate")
    THEN CreatePayment(role, s, e, amount, status, "evaluated", "evaluated")
    ELSE Forbidden("createPayment")

\* router.put('/:id', hasPermission('payments', 'canEdit'), updatePayment)
PutPayment(role, p, amount, status) ==
    IF HasPermission(role, "payments", "canEdit")
    THEN UpdatePayment(role, p, amount, status, "evaluated", "evaluated")
    ELSE Forbidden("updatePayment")

\* router.put('/:id/verify', authorize('admin', 'employee'),
\*            hasPermission('payments', 'canEdit'), verifyPayment)
PutVerify(role, p) ==
    IF Authorize(role, {"admin", "employee"}) /\ HasPermission(role, "payments", "canEdit")
    THEN VerifyPayment(p, "evaluated", "evaluated")
    ELSE Forbidden("verifyPayment")

\* router.put('/:id/refund', authorize('admin'), refundPayment)
PutRefund(role, p, amount) ==
    IF Authorize(role, {"admin"})
    THEN RefundPayment(p, amount, "evaluated", "evaluated")
    ELSE Forbidden("refundPayment")

\* exploration bound on the number of hook runs
InSaves(led) == \A s \in DOMAIN led : led[s].paidAmount <= MaxSaves * ScenarioAmount

NextLedger ==
    \/ \E role \in LedgerRoles, status \in {AbsentStatus, "completed"} :
          PostPayment(role, 1, NoEnrollment, ScenarioAmount, status) /\ InSaves(ledger')
    \/ StudentUpdatePayment(1, ScenarioAmount, "evaluated") /\ InSaves(ledger')
    \/ \E role \in LedgerRoles, p \in 1..MaxPayments, amount \in {Absent, ScenarioAmount},
          status \in {AbsentStatus, "completed"} :
          PutPayment(role, p, amount, status) /\ InSaves(ledger')
    \/ \E role \in LedgerRoles, p \in 1..MaxPayments : PutVerify(role, p) /\ InSaves(ledger')
    \/ \E role \in LedgerRoles, p \in 1..MaxPayments :
          PutRefund(role, p, ScenarioAmount) /\ InSaves(ledger')

SpecLedger == InitPay /\ [][NextLedger]_vars

\* ------------------------------------------------------------- SpecRef
\* Deleting students and courses that enrollments refer to.
studentFrame == <<oidSeq, batches, courseStats, procs, paySeq, idVars, attSeq, leads,
                  students, lmsVars>>

\* Enrollment.countDocuments({student, status: 'active'})
ActiveEnrollmentsOfStudent(enr, s) ==
    Cardinality({e \in DOMAIN enr : enr[e].student = s /\ enr[e].status = "active"})

\* Model.deleteMany({student}): the documents of the other students
OfOtherStudents(docs, s) == [x \in {y \in DOMAIN docs : docs[y].student # s} |-> docs[x]]

\* DELETE /api/students/:id
DeleteStudent(s) ==
    /\ UNCHANGED studentFrame
    /\ IF s \notin DOMAIN ledger
       THEN /\ resp' = Response("deleteStudent", 404, "StudentNotFound")
            /\ UNCHANGED <<enrollments, payments, attendance, ledger, studentRefs>>
       ELSE IF ActiveEnrollmentsOfStudent(enrollments, s) > 0
       THEN /\ resp' = Response("deleteStudent", 400, "HasActiveEnrollments")
            /\ UNCHANGED <<enrollments, payments, attendance, ledger, studentRefs>>
       ELSE /\ enrollments' = OfOtherStudents(enrollments, s)
            /\ payments' = OfOtherStudents(payments, s)
            /\ attendance' = OfOtherStudents(attendance, s)
            /\ ledger' = Remove(ledger, s)
            /\ studentRefs' = Remove(studentRefs, s)
            /\ resp' = Response("deleteStudent", 200, "StudentDeleted")

InitRef ==
    /\ InitDb(SeatBatches)
    /\ resp = NoResponse
    /\ procs = NoProcs
    /\ InitAux

NextRef ==
    \/ \E s \in DupStudents, st \in {"pending", "active"} :
          CreateEnrollment(s, 1, NoBatch, st, MaxFee)
    \/ \E e \in 1..MaxEnrollments, st \in {"pending", "active", "completed"} :
          UpdateEnrollment(e, Absent, st)
    \/ DeleteCourse(1)
    \/ \E s \in DupStudents : DeleteStudent(s)

SpecRef == InitRef /\ [][NextRef]_vars

\* =============================================================== claims
\* C1: in a serial execution, whenever an operation raises a batch's
\* currentStudents, the batch ends with currentStudents <= maxStudents.
C1_SeatsWithinCapacityAfterAdd ==
    [][\A b \in DOMAIN batches :
          batches'[b].currentStudents > batches[b].currentStudents
              => batches'[b].currentStudents <= batches'[b].maxStudents]_vars

\* C2: currentStudents of every batch is never negative.
C2_SeatsNeverNegative ==
    \A b \in DOMAIN batches : batches[b].currentStudents >= 0

\* C3: currentStudents of every batch equals the number of roster entries
\* (students[]) whose status is active.
C3_SeatsMatchRoster ==
    \A b \in DOMAIN batches : batches[b].currentStudents = ActiveRoster(batches[b])

C5_DuplicateEnrollmentRejected ==
    [][\A s \in Students, c \in Courses, b \in (DOMAIN batches) \cup {NoBatch}, t \in FeeTotals :
          (/\ \E e \in DOMAIN enrollments :
                 /\ enrollments[e].student = s
                 /\ enrollments[e].course = c
                 /\ enrollments[e].status \in {"pending", "active"}
           /\ resp'.op \in {"createEnrollment", "enrollStudent"}
           /\ CreateEnrollment(s, c, b, "pending", t) \/ EnrollStudent(s, c, b, t))
              => /\ resp'.status = 400
                 /\ resp'.msg = "AlreadyEnrolled"
                 /\ UNCHANGED dbVars]_vars

\* a second enrollStudent for a pair whose first enrollment is still pending
C5_Witness ==
    /\ resp = Response("enrollStudent", 400, "AlreadyEnrolled")
    /\ \E e \in DOMAIN enrollments : enrollments[e].status = "pending"

\* C6: at most one Enrollment document exists per (student, course) pair, also
\* when creation requests of both paths interleave.
C6_OneEnrollmentPerPair ==
    \A e1 \in DOMAIN enrollments, e2 \in DOMAIN enrollments :
        (enrollments[e1].student = enrollments[e2].student
            /\ enrollments[e1].course = enrollments[e2].course) => e1 = e2

\* two requests passed the duplicate check, one inserted, the other hit the index
C6_Witness ==
    /\ resp.msg \in {"DuplicateKey", "ServerError"}
    /\ Cardinality(DOMAIN enrollments) = 1
    /\ \E e \in DOMAIN enrollments : enrollments[e].status = "pending"

\* C7: recording one completed payment of amount A for a student raises the
\* student's paidAmount by exactly A and leaves pendingAmount equal to
\* totalFees minus the new paidAmount; a linked enrollment's fees.paid rises
\* by the same A.
C7_CompletedPaymentAddsExactlyA ==
    [][\A p \in DOMAIN payments' :
          (/\ payments'[p].status = "completed"
           /\ (p \in DOMAIN payments => payments[p].status # "completed"))
          => LET s == payments'[p].student
                 e == payments'[p].enrollment
                 A == payments'[p].amount
             IN /\ ledger'[s].paidAmount = ledger[s].paidAmount + A
                /\ ledger'[s].pendingAmount = ledger'[s].totalFees - ledger'[s].paidAmount
                /\ e \in DOMAIN enrollments
                      => enrollments'[e].paid = enrollments[e].paid + A]_vars

\* C8: for every enrollment, fees.pending = fees.total - fees.paid once a
\* payment-recording operation (payment creation, student payment update,
\* payment verification) has completed.
C8_EnrollmentPendingIsTotalMinusPaid ==
    \A e \in DOMAIN enrollments :
        enrollments[e].pending = enrollments[e].total - enrollments[e].paid

C8_Witness ==
    /\ resp = Response("verifyPayment", 200, "Verified")
    /\ \E p \in DOMAIN payments :
          /\ payments[p].enrollment \in DOMAIN enrollments
          /\ enrollments[payments[p].enrollment].paid = 2 * payments[p].amount
          /\ enrollments[payments[p].enrollment].pending < enrollments[payments[p].enrollment].total

\* C9: for every student, pendingAmount = totalFees - paidAmount after every
\* operation that changes the student's ledger (student save, payment
\* recording, enrolling the student in a course).
C9_StudentPendingIsTotalMinusPaid ==
    \A s \in DOMAIN ledger :
        ledger[s].pendingAmount = ledger[s].totalFees - ledger[s].paidAmount

C9_Witness ==
    /\ resp = Response("updatePayment", 200, "Recorded")
    /\ \E s \in DOMAIN ledger :
          /\ studentRefs[s] # <<>>
          /\ ledger[s].totalFees = 2 * ScenarioTotal
          /\ ledger[s].paidAmount >= ScenarioAmount

\* C10: no two callers, concurrent or not, obtain the same counter value for
\* the same sequence name, and the ids formatted from the values (studentId,
\* enrollmentId, paymentId, receiptNumber) are pairwise distinct.
C10_CounterValuesDistinct ==
    \A i, j \in 1..Len(issued) :
        i # j => /\ issued[i].name = issued[j].name => issued[i].seq # issued[j].seq
                 /\ issued[i].field = issued[j].field => issued[i].id # issued[j].id

C10_Witness ==
    /\ \A p \in Procs : callers[p].pc = "done"
    /\ \E i, j, k, l \in 1..Len(issued) :
          /\ i < j /\ j < k /\ k < l
          /\ issued[i].field = "paymentId"
          /\ issued[j].field = "paymentId"
          /\ issued[k].field = "receiptNumber"
          /\ issued[l].field = "receiptNumber"
          /\ issued[k].name = issued[l].name

C12_TotalIsSumOfParts ==
    \A c \in Courses :
        courseStats[c].totalEnrolled =
            courseStats[c].active + courseStats[c].completed + courseStats[c].dropout

\* C13: marking a module complete is an upsert keyed by moduleId: a moduleId
\* already in completedModules has its entry replaced and the length stays, a new
\* moduleId is appended and the length grows by one, and the list never holds
\* two entries with the same moduleId.
C13_CompleteModuleIsUpsert ==
    [][\A e \in DOMAIN enrollments, m \in ModuleIds, score \in ModuleScores :
          (resp'.op = "updateProgress" /\ UpdateProgress(e, m, score))
          => LET old == enrollments[e].completedModules
                 new == enrollments'[e].completedModules
             IN /\ IF \E i \in 1..Len(old) : old[i].moduleId = m
                   THEN /\ Len(new) = Len(old)
                        /\ \A i \in 1..Len(old) :
                              new[i] = IF old[i].moduleId = m
                                       THEN [moduleId |-> m, score |-> score]
                                       ELSE old[i]
                   ELSE /\ Len(new) = Len(old) + 1
                        /\ new[Len(new)] = [moduleId |-> m, score |-> score]
                        /\ \A i \in 1..Len(old) : new[i] = old[i]
                /\ \A i, j \in 1..Len(new) : new[i].moduleId = new[j].moduleId => i = j]_vars

\* a module marked complete a second time, with another score, next to another module
C13_Witness ==
    /\ resp = Response("updateProgress", 200, "ProgressUpdated")
    /\ \E e \in DOMAIN enrollments :
          /\ Len(enrollments[e].completedModules) = 2
          /\ enrollments[e].completedModules[1].score = 100
          /\ enrollments[e].completedModules[2].score = 50

\* C14: marking attendance (either entry point, any session) for a student who
\* is active in the batch and already has an Attendance record for the same
\* (student, batch, date) is answered with the conflict rejection, 400 "attendance
\* already marked", and leaves the Attendance collection unchanged.
C14_DuplicateAttendanceIsConflict ==
    [][\A s \in Students, b \in DOMAIN batches, session \in AttSessions,
         date \in AttDates, status \in AttStatuses :
          (/\ \E a \in DOMAIN attendance :
                 /\ attendance[a].student = s
                 /\ attendance[a].batch = b
                 /\ attendance[a].date = date
           /\ \E e \in DOMAIN enrollments :
                 /\ enrollments[e].student = s
                 /\ enrollments[e].batch = b
                 /\ enrollments[e].status = "active"
           /\ resp'.op \in {"markAttendance", "studentMarkAttendance"}
           /\ \/ MarkAttendance(s, b, session, date, status)
              \/ StudentMarkAttendance(s, b, session, date, status))
              => /\ resp'.status = 400
                 /\ resp'.msg = "AlreadyMarked"
                 /\ attendance' = attendance]_vars

\* C17: an update or delete of an approved Attendance record by a role other
\* than admin is answered 403 and changes neither the Attendance collection nor
\* any enrollment (its embedded attendance list included).
C17_ApprovedLockedForNonAdmin ==
    [][\A a \in DOMAIN attendance, role \in Roles \ {"admin"} :
          (/\ resp'.op \in {"updateAttendance", "deleteAttendance"}
           /\ attendance[a].isApproved
           /\ \/ DeleteAttendance(a, role)
              \/ \E status \in AttStatuses, approve \in ApproveChoices :
                    UpdateAttendance(a, role, status, approve, Absent))
              => /\ resp'.status = 403
                 /\ attendance' = attendance
                 /\ enrollments' = enrollments]_vars

\* a trainer's delete of an approved record that has an embedded mirror was refused
C17_Witness ==
    /\ resp = Response("deleteAttendance", 403, "ApprovedLocked")
    /\ \E a \in DOMAIN attendance :
          /\ attendance[a].isApproved
          /\ \E e \in DOMAIN enrollments : Len(enrollments[e].attendance) > 0

\* C18: marking attendance (either entry point) for an existing student and a
\* named batch in which the student has no active enrollment is answered 400
\* "not enrolled in this batch" and changes neither the Attendance collection nor
\* any enrollment's embedded attendance list.
C18_NoActiveEnrollmentRejected ==
    [][\A s \in Students, b \in DOMAIN batches :
          (/\ resp'.op \in {"markAttendance", "studentMarkAttendance"}
           /\ ~ \E e \in DOMAIN enrollments :
                   /\ enrollments[e].student = s
                   /\ enrollments[e].batch = b
                   /\ enrollments[e].status = "active"
           /\ \E session \in AttSessions, date \in AttDates, status \in AttStatuses :
                 \/ MarkAttendance(s, b, session, date, status)
                 \/ StudentMarkAttendance(s, b, session, date, status))
              => /\ resp'.status = 400
                 /\ resp'.msg = "NotEnrolledInBatch"
                 /\ attendance' = attendance
                 /\ attSeq' = attSeq
                 /\ enrollments' = enrollments]_vars

\* a student whose enrollment in the batch was dropped after attendance had been
\* marked is refused
C18_Witness ==
    /\ resp = Response("studentMarkAttendance", 400, "NotEnrolledInBatch")
    /\ \E e \in DOMAIN enrollments :
          /\ enrollments[e].status = "dropped"
          /\ enrollments[e].batch = 1
          /\ Len(enrollments[e].attendance) > 0

\* C15: the attendance percentage returned for an enrollment is the integer
\* nearest to 100 * (entries with status present or late) / (entries), is 0 for
\* an empty list, and is 75 for present, present, absent, late.
C15_PercentageIsRoundedRatio ==
    (resp.op \in {"getEnrollmentById", "enrollmentMarkAttendance"} /\ resp.status = 200)
        => LET list == enrollments[1].attendance
               n == Len(list)
               p == Cardinality({i \in DOMAIN list : list[i].status \in {"present", "late"}})
               diff == n * resp.data - 100 * p
           IN  /\ n = 0 => resp.data = 0
               /\ n > 0 => 2 * (IF diff < 0 THEN -diff ELSE diff) <= n
               /\ [i \in DOMAIN list |-> list[i].status]
                      = <<"present", "present", "absent", "late">> => resp.data = 75

\* the list present, present, absent, late was read back with 75
C15_Witness ==
    /\ resp.op = "getEnrollmentById"
    /\ resp.status = 200
    /\ resp.data = 75
    /\ [i \in DOMAIN enrollments[1].attendance |-> enrollments[1].attendance[i].status]
           = <<"present", "present", "absent", "late">>

\* C16: converting a lead whose convertedToStudent is false creates exactly one
\* Student and sets convertedToStudent = true and convertedStudentId on the lead;
\* converting a lead whose convertedToStudent is true is answered 400 and creates
\* no Student.
C16_LeadConvertedExactlyOnce ==
    [][\A l \in DOMAIN leads :
          (resp'.op = "convertToStudent" /\ ConvertToStudent(l))
              => IF leads[l].convertedToStudent
                 THEN resp'.status = 400 /\ students' = students
                 ELSE /\ Len(students') = Len(students) + 1
                      /\ leads'[l].convertedToStudent
                      /\ leads'[l].convertedStudentId = Len(students')]_vars

\* C19: a concurrent addStudentToBatch request that loaded the batch while it
\* had a free seat (and did not list the student) is admitted by its save
\* whatever has been written since: the answer is 200 and the roster grows by
\* one.  Two requests that both loaded the batch with exactly one free seat
\* therefore both succeed and leave more admitted students than maxStudents
\* (C19_Witness).
C19_StaleCheckStillAdmits ==
    [][\A p \in Procs :
          (/\ procs[p].pc = "ab_loaded"
           /\ resp'.op = "addStudentToBatch"
           /\ procs[p].student \in Students
           /\ procs[p].doc.currentStudents < procs[p].doc.maxStudents
           /\ \A i \in DOMAIN procs[p].doc.students :
                 procs[p].doc.students[i].student # procs[p].student
           /\ AB_Save(p))
              => /\ resp'.status = 200
                 /\ Len(batches'[procs[p].batch].students)
                        = Len(batches[procs[p].batch].students) + 1]_vars

\* both requests read one free seat in the same batch, both were answered 200,
\* and the roster is longer than maxStudents
C19_Witness ==
    /\ \A p \in Procs :
          /\ procs[p].pc = "ab_done"
          /\ procs[p].status = 200
          /\ procs[p].batch = 1
          /\ procs[p].doc.currentStudents = procs[p].doc.maxStudents - 1
    /\ Len(batches[1].students) > batches[1].maxStudents
    /\ ActiveRoster(batches[1]) > batches[1].maxStudents

\* C20: when a request that changes an enrollment's batch from A to B has
\* ended, either A.currentStudents is one lower and B.currentStudents one
\* higher than when it began, or both are as they were.
C20_BatchMoveAllOrNothing ==
    procs[1].pc = "ue_done"
        => LET A == procs[1].from
               B == procs[1].to
               before == procs[1].before
           IN  (A # NoBatch /\ B # NoBatch /\ A # B)
                   => \/ /\ batches[A].currentStudents = before[A].currentStudents - 1
                         /\ batches[B].currentStudents = before[B].currentStudents + 1
                      \/ /\ batches[A].currentStudents = before[A].currentStudents
                         /\ batches[B].currentStudents = before[B].currentStudents

\* C21: after a completed create, update or delete of an enrollment, the stored
\* totalEnrolled of every course whose set of enrollments the request changed
\* equals the number of Enrollment documents that reference the course.
C21_TotalEnrolledCountsDocuments ==
    [][(/\ resp'.op \in {"createEnrollment", "updateEnrollment", "deleteEnrollment"}
        /\ resp'.status \in {200, 201})
          => \A c \in Courses :
                LET docs(enr) == {e \in DOMAIN enr : enr[e].course = c}
                IN  docs(enrollments') # docs(enrollments)
                        => courseStats'[c].totalEnrolled = Cardinality(docs(enrollments'))]_vars

\* C22: when the Payment has been stored and the hook's write to the student
\* ledger fails, createPayment still answers 201, the Payment is stored, and
\* neither ledger receives the amount; when only the write to the enrollment
\* ledger fails, the answer is 201, the Payment is stored and the enrollment's
\* fees are unchanged.
C22_FailedLedgerWriteOnlyLogged ==
    [][\A role \in {"admin", "counselor"}, e \in {NoEnrollment} \cup DOMAIN enrollments :
          /\ (/\ resp'.op = "createPayment"
              /\ \E o2 \in HookOutcomes :
                    CreatePayment(role, 1, e, ScenarioAmount, AbsentStatus, "rejected", o2))
                => /\ resp'.status = 201
                   /\ paySeq + 1 \in DOMAIN payments'
                   /\ payments'[paySeq + 1].amount = ScenarioAmount
                   /\ ledger' = ledger
                   /\ enrollments' = enrollments
          /\ (/\ resp'.op = "createPayment"
              /\ e \in DOMAIN enrollments
              /\ CreatePayment(role, 1, e, ScenarioAmount, AbsentStatus, "evaluated", "rejected"))
                => /\ resp'.status = 201
                   /\ paySeq + 1 \in DOMAIN payments'
                   /\ enrollments' = enrollments]_vars

\* a completed payment is stored, the request was answered 201, and the
\* student's ledger holds none of its amount
C22_Witness ==
    /\ resp = Response("createPayment", 201, "Created")
    /\ \E p \in DOMAIN payments : payments[p].status = "completed"
    /\ ledger[1].paidAmount = 0

\* C23: after every mark, update or delete of attendance, the embedded
\* attendance list of a student's active enrollment in a batch holds exactly one
\* entry (same session and date, same status) for every stored Attendance
\* record of that student and batch, and no other entry.
C23_EmbeddedListMirrorsRecords ==
    \A e \in DOMAIN enrollments :
        (enrollments[e].status = "active" /\ enrollments[e].batch # NoBatch)
            => LET list == enrollments[e].attendance
                   recs == {a \in DOMAIN attendance :
                               /\ attendance[a].student = enrollments[e].student
                               /\ attendance[a].batch = enrollments[e].batch}
                   Mirror(a) == {i \in DOMAIN list :
                                    /\ list[i].session = attendance[a].session
                                    /\ list[i].date = attendance[a].date}
               IN  /\ \A a \in recs :
                         /\ Cardinality(Mirror(a)) = 1
                         /\ \A i \in Mirror(a) : list[i].status = attendance[a].status
                   /\ \A i \in DOMAIN list : \E a \in recs : i \in Mirror(a)

\* C24: the attendance percentage cached on a batch's roster entry equals the
\* value the enrollment view computes for the same records, that is
\* round(100 * present-or-late / number of records) over the records submitted
\* for that student in that batch.
C24_RosterRateMatchesDefinition ==
    \A b \in DOMAIN rosterPct :
        \A s \in DOMAIN rosterPct[b] :
            LET records == SelectSeq(attLog, LAMBDA x : x.batch = b /\ x.student = s)
            IN  rosterPct[b][s] = calculateAttendancePercentage(records)

\* C25 (as amended): after a module is marked complete and the enrollment is saved,
\* progress.percentage is completedModules.length / curriculum length * 100 rounded
\* to the nearest integer (halves upward), 0 when the curriculum is empty, and the
\* value it had before when the course is not found.
C25_PercentageIsRoundedShare ==
    [][\A e \in 1..MaxEnrollments :
          (/\ resp'.op = "updateProgress"
           /\ resp'.status = 200
           /\ e \in DOMAIN enrollments
           /\ \E m \in ModuleIds, score \in ModuleScores : UpdateProgress(e, m, score))
          => LET doc == enrollments'[e]
                 n == Len(doc.completedModules)
                 p == doc.percentage
             IN IF doc.course \notin DOMAIN curriculum
                THEN p = enrollments[e].percentage
                ELSE LET T == curriculum[doc.course]
                     IN IF T = 0 THEN p = 0
                        ELSE /\ 2 * T * p <= 200 * n + T
                             /\ 2 * T * p > 200 * n - T]_vars

\* an enrollment holding one of three modules reports 33 after updateProgress
C25_Witness ==
    /\ resp.op = "updateProgress"
    /\ resp.status = 200
    /\ \E e \in DOMAIN enrollments :
          /\ enrollments[e].course \in DOMAIN curriculum
          /\ curriculum[enrollments[e].course] = 3
          /\ Len(enrollments[e].completedModules) = 1
          /\ enrollments[e].percentage = 33

\* C25 (as stated): after a module is marked complete and the enrollment is saved,
\* progress.percentage times the curriculum length equals 100 times
\* completedModules.length whenever the course has a non-empty curriculum.
C25_PercentageIsExactShare ==
    [][\A e \in 1..MaxEnrollments :
          (/\ resp'.op = "updateProgress"
           /\ resp'.status = 200
           /\ e \in DOMAIN enrollments
           /\ \E m \in ModuleIds, score \in ModuleScores : UpdateProgress(e, m, score))
          => LET doc == enrollments'[e]
             IN (/\ doc.course \in DOMAIN curriculum
                 /\ curriculum[doc.course] > 0)
                => curriculum[doc.course] * doc.percentage
                      = 100 * Len(doc.completedModules)]_vars

\* C26: for an assignment content item, submissions holds at most one entry per
\* student and stats.submissions equals the number of entries in submissions.
C26_OneSubmissionPerStudent ==
    \A a \in DOMAIN contents :
        contents[a].type = "assignment"
        => /\ \A i, j \in 1..Len(contents[a].submissions) :
                 contents[a].submissions[i].student = contents[a].submissions[j].student
                 => i = j
           /\ contents[a].statsSubmissions = Len(contents[a].submissions)

\* C30: for every role, getPermissionsByRole of utils/permissions.js returns the
\* matrix that getPermissionsByRole of middleware/permissionMiddleware.js returns:
\* the same modules with the same four flags.
C30_PermissionMatricesAgree ==
    resp.op = "getPermissionsByRole"
    => resp.data = middlewareGetPermissionsByRole(resp.msg)

\* the amounts of the first n payments that belong to student s and have reached
\* status completed (a refund is only granted to a completed payment), summed
RECURSIVE C27_CompletedTotal(_, _, _)
C27_CompletedTotal(pays, s, n) ==
    IF n = 0 THEN 0
    ELSE C27_CompletedTotal(pays, s, n - 1)
         + (IF /\ n \in DOMAIN pays
               /\ pays[n].student = s
               /\ pays[n].status \in {"completed", "refunded"}
            THEN pays[n].amount ELSE 0)

\* C27: in every state reached by payment creation, student payment update,
\* payment update, verification and refund, a student's paymentPlan.paidAmount is
\* its initial value (0) plus the amounts of that student's payments that have
\* reached status completed, each counted once, the others not at all.
C27_PaidAmountIsCompletedTotal ==
    \A s \in DOMAIN ledger :
        ledger[s].paidAmount = C27_CompletedTotal(payments, s, paySeq)

\* the payments that the step brings to status completed
C28_NewlyCompleted ==
    {p \in DOMAIN payments' :
        /\ payments'[p].status = "completed"
        /\ (p \in DOMAIN payments => payments[p].status # "completed")}

\* C28: no request made by an actor whose role is neither admin nor employee
\* creates a payment as completed or moves an existing payment to completed.
C28_OnlyStaffCompletes ==
    [][\A role \in LedgerRoles \ {"admin", "employee"} :
          (\/ \E status \in {AbsentStatus, "completed"} :
                 PostPayment(role, 1, NoEnrollment, ScenarioAmount, status)
           \/ \E p \in 1..MaxPayments, amount \in {Absent, ScenarioAmount},
                 status \in {AbsentStatus, "completed"} : PutPayment(role, p, amount, status)
           \/ \E p \in 1..MaxPayments : PutVerify(role, p)
           \/ \E p \in 1..MaxPayments : PutRefund(role, p, ScenarioAmount))
          => C28_NewlyCompleted = {}]_vars

\* C29: in every state reached by course deletion, student deletion, enrollment
\* creation and enrollment update, every Enrollment with status active references
\* a Student and a Course that still exist.
C29_ActiveEnrollmentRefsExist ==
    \A e \in DOMAIN enrollments :
        enrollments[e].status = "active"
        => /\ enrollments[e].student \in DOMAIN ledger
           /\ enrollments[e].course \in DOMAIN curriculum

====
